---- MODULE Spec2Model ----
(***************************************************************************)
(* NovelLog (duji): the book collection kept in React state (App.tsx), the *)
(* object store behind `db`, the import conflict workflow, the record      *)
(* lifecycle handlers and the startup migration.                           *)
(*                                                                         *)
(* Conventions.  Identifiers are integers; 0 stands for an absent          *)
(* (undefined) identifier.  Timestamps are integers; 0 stands for an       *)
(* absent (falsy) timestamp.  "" stands for an absent or empty string.     *)
(* A store call is issued synchronously by a handler and put in `calls`;   *)
(* it completes in a later step, in which the store performs it and the    *)
(* code awaiting it runs (the event loop delivers completions in the order *)
(* the store performs them).  Calls complete in any order.                 *)
(***************************************************************************)
EXTENDS Integers, Sequences, FiniteSets, TLC

VARIABLES
    store,            \* the object store: a set of books, one per identifier
    legacy,           \* localStorage 'novellog-notes'
    books,            \* useState<Book[]>, the in-memory collection
    isLoading,
    view,             \* 'list' | 'editor'
    editingBookId,    \* 0 for null
    confirmConfig,    \* the confirm dialog and what its onConfirm closes over
    importConflicts,
    pendingImport,    \* [isNull, items]
    decisions,        \* ImportDialog state: key -> decision
    currentIndex,     \* ImportDialog state
    calls,            \* store calls issued and not yet completed
    now,              \* Date.now()
    nextId,           \* the next identifier generateId returns
    lastAlert,        \* the alert() the last handler showed
    imp,              \* history of the latest import, until another handler runs
    last,             \* the import step or rejected update that ran last (history)
    searchQuery,      \* useState('')
    activeTags,       \* useState<Set<string>>(new Set())
    sortField,        \* 'updatedAt' | 'createdAt' | 'rating'
    exported,         \* the backup file handleExport wrote last
    mig,              \* migrateNotesToBooks applied on its own: input and results
    selectionMode,    \* useState(false)
    selectedIds       \* useState<Set<string>>(new Set()), in insertion order

dataVars   == <<store, legacy, books, isLoading>>
uiVars     == <<view, editingBookId, confirmConfig>>
dialogVars == <<importConflicts, pendingImport, decisions, currentIndex>>
envVars    == <<now, nextId>>
viewVars   == <<searchQuery, activeTags, sortField>>
extVars    == <<exported, mig>>
selVars    == <<selectionMode, selectedIds>>
vars == <<store, legacy, books, isLoading, view, editingBookId, confirmConfig,
          importConflicts, pendingImport, decisions, currentIndex, calls,
          now, nextId, lastAlert, imp, last, searchQuery, activeTags,
          sortField, exported, mig, selectionMode, selectedIds>>

----------------------------------------------------------------------------
(* Bounds *)

MaxClock == 2      \* Date.now() ranges over 1..MaxClock
MaxId    == 5      \* generateId stops handing out identifiers after MaxId
MaxBatch == 2      \* records in an import file
MaxCalls == 3      \* store calls in flight

----------------------------------------------------------------------------
(* Sequences *)

Remove(s, i) == SubSeq(s, 1, i - 1) \o SubSeq(s, i + 1, Len(s))

Range(s) == {s[i] : i \in DOMAIN s}

Indices(s) == [i \in 1..Len(s) |-> i]

RECURSIVE SeqsUpTo(_, _)
SeqsUpTo(S, n) ==
    IF n = 0 THEN {<<>>}
    ELSE LET shorter == SeqsUpTo(S, n - 1)
         IN  shorter \cup {Append(s, x) : s \in shorter, x \in S}

----------------------------------------------------------------------------
(* Data: types.ts *)

Entry(id, content, images, createdAt) ==
    [id |-> id, content |-> content, images |-> images, createdAt |-> createdAt]

Book(id, title, protagonists, rating, tags, entries, createdAt, updatedAt) ==
    [id |-> id, title |-> title, protagonists |-> protagonists,
     rating |-> rating, tags |-> tags, entries |-> entries,
     createdAt |-> createdAt, updatedAt |-> updatedAt]

\* A record of a legacy or imported file.  hasEntries / hasProtagonists say
\* whether the optional array is present ([] is truthy in JavaScript).
LegacyNote(id, title, protagonist, hasProtagonists, protagonists, rating, tags, content, images, createdAt, updatedAt, hasEntries, entries) ==
    [id |-> id, title |-> title, protagonist |-> protagonist,
     hasProtagonists |-> hasProtagonists, protagonists |-> protagonists,
     rating |-> rating, tags |-> tags, content |-> content, images |-> images,
     createdAt |-> createdAt, updatedAt |-> updatedAt,
     hasEntries |-> hasEntries, entries |-> entries]

\* String.prototype.toLowerCase on the titles used here.
toLowerCase(s) ==
    CASE s = "Foo" -> "foo"
      [] s = "Bar" -> "bar"
      [] OTHER -> s

----------------------------------------------------------------------------
(* The persistence interface (db): getAll, put, putMany, delete *)

Ids(bs) == {b.id : b \in bs}

saveBook(st, b) == {x \in st : x.id # b.id} \cup {b}

RECURSIVE saveAllBooks(_, _)
saveAllBooks(st, bs) ==
    IF bs = <<>> THEN st
    ELSE saveAllBooks(saveBook(st, Head(bs)), Tail(bs))

deleteBook(st, id) == {x \in st : x.id # id}

\* getAll returns the records in key order.
RECURSIVE getAllBooks(_)
getAllBooks(st) ==
    IF st = {} THEN <<>>
    ELSE LET first == CHOOSE x \in st : \A y \in st : x.id <= y.id
         IN  <<first>> \o getAllBooks(st \ {first})

Call(op, bs, id, cont, v) ==
    [op |-> op, books |-> bs, id |-> id, cont |-> cont, view |-> v]

----------------------------------------------------------------------------
(* utils: migrateNotesToBooks *)

\* Variant: only content makes an entry.
Synthesizes_ContentOnly(item) == ~item.hasEntries /\ item.content # ""

\* The record gets a synthesized entry (and generateId is called once).
Synthesizes(item) ==
    ~item.hasEntries /\ (item.content # "" \/ Len(item.images) > 0)

SynthCount(items, n) == Cardinality({j \in 1..n : Synthesizes(items[j])})

\* Variant: every book is stamped with the time of the pass.
migrateItem_Restamps(item, t, entryId) ==
    LET entries ==
            IF Synthesizes(item)
            THEN << Entry(entryId, item.content, item.images,
                          IF item.updatedAt # 0 THEN item.updatedAt ELSE t) >>
            ELSE IF item.hasEntries THEN item.entries ELSE <<>>
        protagonists ==
            IF item.hasProtagonists THEN item.protagonists
            ELSE IF item.protagonist # "" THEN <<item.protagonist>>
            ELSE <<>>
    IN  Book(item.id, item.title, protagonists, item.rating, item.tags, entries,
             IF item.createdAt # 0 THEN item.createdAt ELSE t,
             t)

\* Variant: the book gets an identifier of its own.
migrateItem_NewId(item, t, entryId) ==
    LET entries ==
            IF Synthesizes(item)
            THEN << Entry(entryId, item.content, item.images,
                          IF item.updatedAt # 0 THEN item.updatedAt ELSE t) >>
            ELSE IF item.hasEntries THEN item.entries ELSE <<>>
        protagonists ==
            IF item.hasProtagonists THEN item.protagonists
            ELSE IF item.protagonist # "" THEN <<item.protagonist>>
            ELSE <<>>
    IN  Book(entryId, item.title, protagonists, item.rating, item.tags, entries,
             IF item.createdAt # 0 THEN item.createdAt ELSE t,
             IF item.updatedAt # 0 THEN item.updatedAt ELSE t)

migrateItem(item, t, entryId) ==
    LET entries ==
            IF Synthesizes(item)
            THEN << Entry(entryId, item.content, item.images,
                          IF item.updatedAt # 0 THEN item.updatedAt ELSE t) >>
            ELSE IF item.hasEntries THEN item.entries ELSE <<>>
        protagonists ==
            IF item.hasProtagonists THEN item.protagonists
            ELSE IF item.protagonist # "" THEN <<item.protagonist>>
            ELSE <<>>
    IN  Book(item.id, item.title, protagonists, item.rating, item.tags, entries,
             IF item.createdAt # 0 THEN item.createdAt ELSE t,
             IF item.updatedAt # 0 THEN item.updatedAt ELSE t)

\* data = [isArray, items]; t = Date.now(); firstId = the identifier the
\* first generateId call returns.
migrateNotesToBooks(data, t, firstId) ==
    IF ~data.isArray THEN <<>>
    ELSE [i \in 1..Len(data.items) |->
            migrateItem(data.items[i], t,
                        firstId + SynthCount(data.items, i - 1))]

MigrateIds(data) ==
    IF data.isArray THEN SynthCount(data.items, Len(data.items)) ELSE 0

----------------------------------------------------------------------------
(* App.tsx: processImport *)

\* new Map(books.map(b => [b.title.toLowerCase(), b])): the last book of a
\* key wins.
existingTitleMap(bs) ==
    [k \in {toLowerCase(bs[i].title) : i \in DOMAIN bs} |->
        bs[CHOOSE i \in DOMAIN bs :
              /\ toLowerCase(bs[i].title) = k
              /\ \A j \in DOMAIN bs : toLowerCase(bs[j].title) = k => j <= i]]

\* Variant: titles compared without lower-casing.
HasExisting_CaseSensitive(inc, bs) == inc.title \in {bs[i].title : i \in DOMAIN bs}

\* `if (existing)` for a record that passed `if (!inc.title) return`.
HasExisting(inc, bs) == toLowerCase(inc.title) \in DOMAIN existingTitleMap(bs)

ConflictIdx(imported, bs) ==
    SelectSeq(Indices(imported),
              LAMBDA i : imported[i].title # "" /\ HasExisting(imported[i], bs))

FreshIdx(imported, bs) ==
    SelectSeq(Indices(imported),
              LAMBDA i : imported[i].title # "" /\ ~HasExisting(imported[i], bs))

conflictsOf(imported, bs) ==
    LET idx == ConflictIdx(imported, bs)
    IN  [k \in 1..Len(idx) |->
            [existing |-> existingTitleMap(bs)[toLowerCase(imported[idx[k]].title)],
             incoming |-> imported[idx[k]]]]

\* nonConflicting.push({ ...inc, id: generateId() })
nonConflictingOf(imported, bs, firstId) ==
    LET idx == FreshIdx(imported, bs)
    IN  [k \in 1..Len(idx) |-> [imported[idx[k]] EXCEPT !.id = firstId + k - 1]]

----------------------------------------------------------------------------
(* Inputs *)

Note(id, title, content, createdAt, updatedAt) ==
    LegacyNote(id, title, "", FALSE, <<>>, 0, <<>>, content, <<>>,
               createdAt, updatedAt, FALSE, <<>>)

\* Records of an import file: titles that differ in case only, an empty
\* title, records that share an identifier or have none, a record with
\* content and no entries, one without createdAt, one stamped by a clock
\* that is ahead of this one.
ImportRecords ==
    { Note(1, "foo", "", 1, 1),
      Note(1, "Foo", "", 1, 2),
      Note(0, "Foo", "", 0, 1),
      Note(0, "Bar", "", 1, 9),
      Note(2, "",    "", 1, 1),
      Note(2, "Bar", "x", 1, 1) }

ImportKeys == {r.id : r \in ImportRecords}

\* A picked file: not JSON, JSON that is not an array, or an array.
ImportFiles ==
    { [parses |-> FALSE, isArray |-> FALSE, items |-> <<>>],
      [parses |-> TRUE,  isArray |-> FALSE, items |-> <<>>] }
    \cup { [parses |-> TRUE, isArray |-> TRUE, items |-> s] :
              s \in SeqsUpTo(ImportRecords, MaxBatch) }

\* Collections an earlier session left in the store (titles are not unique:
\* the editor only warns about a duplicate title).
StoredBooks ==
    { Book(1, "Foo", <<>>, 0, <<>>, <<>>, 1, 1),
      Book(2, "Bar", <<>>, 0, <<>>, <<>>, 1, 1),
      Book(3, "foo", <<>>, 0, <<>>, <<>>, 1, 1) }

InitStores ==
    { {}, {b \in StoredBooks : b.id = 1}, {b \in StoredBooks : b.id # 3},
      {b \in StoredBooks : b.id # 2} }

FirstId == 4      \* the first identifier generateId hands out

NoDecisions == [k \in ImportKeys |-> "none"]

NoImport ==
    [phase |-> "idle", batch |-> <<>>, booksAt |-> <<>>, storeAt |-> {},
     conflicts |-> <<>>, pending |-> <<>>, resolutions |-> NoDecisions,
     choices |-> <<>>, newIds |-> <<>>]

NoPending == [isNull |-> TRUE, items |-> <<>>]

\* localStorage.getItem('novellog-notes') === null
NoLegacy == [present |-> FALSE, parses |-> TRUE, isArray |-> TRUE, items |-> <<>>]

\* What an earlier version left under 'novellog-notes': notes with
\* identifiers and timestamps of their own, or text that is not JSON.
LegacyData ==
    { [present |-> TRUE, parses |-> TRUE, isArray |-> TRUE,
       items |-> << LegacyNote(1, "Foo", "p", FALSE, <<>>, 0, <<>>, "x", <<>>,
                               1, 1, FALSE, <<>>) >>],
      [present |-> TRUE, parses |-> FALSE, isArray |-> FALSE, items |-> <<>>] }

NoAlert == [msg |-> "none", n |-> 0]

\* useState({ isOpen: false, message: '', onConfirm: () => {} })
NoConfirm ==
    [isOpen |-> FALSE, kind |-> "none", id |-> 0, view |-> "list", ids |-> <<>>]

Did(op, id, ok) == [op |-> op, id |-> id, ok |-> ok]

\* No backup file has been written.
NoFile == [written |-> FALSE, items |-> <<>>, books |-> <<>>]

\* migrateNotesToBooks has not been applied on its own.
NoMig == [pass |-> 0, data |-> [isArray |-> TRUE, items |-> <<>>],
          first |-> <<>>, second |-> <<>>, t1 |-> 0, t2 |-> 0]

Idle == Did("none", 0, TRUE)

----------------------------------------------------------------------------
(* App.tsx: import *)

\* The menu (list view outside selection mode, no dialog over it).
MenuReachable ==
    /\ ~isLoading
    /\ view = "list"
    /\ ~selectionMode
    /\ importConflicts = <<>>
    /\ ~confirmConfig.isOpen

Titled(imported) == Cardinality({i \in DOMAIN imported : imported[i].title # ""})

\* Variant: the non-conflicting records are written at once even when there
\* are conflicts.
processImport_SavesAtOnce(imported, bs, firstId) ==
    LET conflicts      == conflictsOf(imported, bs)
        nonConflicting == nonConflictingOf(imported, bs, firstId)
    IN  /\ nextId' = firstId + Len(nonConflicting)
        /\ calls' = Append(calls,
                           Call("saveAllBooks", nonConflicting, 0, "import", ""))
        /\ lastAlert' = [msg |-> "importSuccess", n |-> Len(nonConflicting)]
        /\ IF Len(conflicts) > 0
           THEN /\ pendingImport' = [isNull |-> FALSE, items |-> nonConflicting]
                /\ importConflicts' = conflicts
                /\ decisions' = NoDecisions
                /\ currentIndex' = 0
           ELSE UNCHANGED dialogVars
        /\ imp' = [phase |-> IF Len(conflicts) > 0 THEN "dialog" ELSE "writing",
                   batch |-> imported, booksAt |-> bs, storeAt |-> store,
                   conflicts |-> conflicts, pending |-> nonConflicting,
                   resolutions |-> NoDecisions, choices |-> <<>>,
                   newIds |-> [i \in 1..Len(conflicts) |-> 0]]

\* processImport(imported), run with the `books` of the render that created
\* the file input.
processImport(imported, bs, firstId) ==
    LET conflicts      == conflictsOf(imported, bs)
        nonConflicting == nonConflictingOf(imported, bs, firstId)
    IN  /\ nextId' = firstId + Len(nonConflicting)
        /\ IF Len(conflicts) > 0
           THEN /\ pendingImport' = [isNull |-> FALSE, items |-> nonConflicting]
                /\ importConflicts' = conflicts
                /\ decisions' = NoDecisions
                /\ currentIndex' = 0
                /\ UNCHANGED <<calls, lastAlert>>
           ELSE /\ calls' = Append(calls,
                                   Call("saveAllBooks", nonConflicting, 0, "import", ""))
                /\ lastAlert' = [msg |-> "importSuccess", n |-> Len(nonConflicting)]
                /\ UNCHANGED dialogVars
        /\ imp' = [phase |-> IF Len(conflicts) > 0 THEN "dialog" ELSE "writing",
                   batch |-> imported, booksAt |-> bs, storeAt |-> store,
                   conflicts |-> conflicts, pending |-> nonConflicting,
                   resolutions |-> NoDecisions, choices |-> <<>>,
                   newIds |-> [i \in 1..Len(conflicts) |-> 0]]

\* handleImportClick, the file picker and reader.onload.
handleImportClick(file) ==
    /\ MenuReachable
    /\ nextId + MigrateIds(file) + Titled(file.items) - 1 <= MaxId
    /\ IF ~file.parses
       THEN /\ lastAlert' = [msg |-> "importFail", n |-> 0]
            /\ UNCHANGED <<dialogVars, calls, nextId, imp>>
       ELSE processImport(migrateNotesToBooks(file, now, nextId), books,
                          nextId + MigrateIds(file))
    /\ last' = Did("import", 0, file.parses)
    /\ UNCHANGED <<dataVars, uiVars, now>>
    /\ UNCHANGED <<viewVars, extVars, selVars>>

\* Variant: every decided conflict is overwritten.
OverwriteIdx_AnyDecision(conflicts, resolutions) ==
    SelectSeq(Indices(conflicts),
              LAMBDA i : resolutions[conflicts[i].incoming.id] # "none")

OverwriteIdx(conflicts, resolutions) ==
    SelectSeq(Indices(conflicts),
              LAMBDA i : resolutions[conflicts[i].incoming.id] = "overwrite")

\* Variant: a conflict is left out only when its decision is 'skip'.
finalImportList_UnlessSkip(pending, conflicts, resolutions, firstId) ==
    LET idx == SelectSeq(Indices(conflicts),
                  LAMBDA i : resolutions[conflicts[i].incoming.id] # "skip")
    IN  (IF pending.isNull THEN <<>> ELSE pending.items)
        \o [k \in 1..Len(idx) |->
              [conflicts[idx[k]].incoming EXCEPT !.id = firstId + k - 1]]

\* finalImportList of resolveImportConflicts.
finalImportList(pending, conflicts, resolutions, firstId) ==
    LET idx == OverwriteIdx(conflicts, resolutions)
    IN  (IF pending.isNull THEN <<>> ELSE pending.items)
        \o [k \in 1..Len(idx) |->
              [conflicts[idx[k]].incoming EXCEPT !.id = firstId + k - 1]]

\* Variant: the delete is keyed by the incoming record's identifier.
overwriteDeletes_IncomingId(conflicts, resolutions) ==
    LET idx == SelectSeq(Indices(conflicts),
                  LAMBDA i : resolutions[conflicts[i].incoming.id] = "overwrite")
    IN  [k \in 1..Len(idx) |->
            Call("deleteBook", <<>>, conflicts[idx[k]].incoming.id, "overwrite", "")]

\* The db.deleteBook calls of resolveImportConflicts, in the order issued.
overwriteDeletes(conflicts, resolutions) ==
    LET idx == OverwriteIdx(conflicts, resolutions)
    IN  [k \in 1..Len(idx) |->
            Call("deleteBook", <<>>, conflicts[idx[k]].existing.id, "overwrite", "")]

resolveImportConflicts(resolutions) ==
    LET idx == OverwriteIdx(importConflicts, resolutions)
    IN  /\ calls' = calls
                    \o overwriteDeletes(importConflicts, resolutions)
                    \o << Call("saveAllBooks",
                               finalImportList(pendingImport, importConflicts,
                                               resolutions, nextId),
                               0, "import", "") >>
        /\ nextId' = nextId + Len(idx)
        /\ importConflicts' = <<>>
        /\ pendingImport' = NoPending

\* History: the identifier each conflict's overwrite was given (0 if none).
NewIds(conflicts, resolutions, firstId) ==
    LET idx == OverwriteIdx(conflicts, resolutions)
    IN  [i \in 1..Len(conflicts) |->
            IF \E k \in DOMAIN idx : idx[k] = i
            THEN firstId - 1 + (CHOOSE k \in DOMAIN idx : idx[k] = i)
            ELSE 0]

\* Variant: the callback runs on the first decision.
handleDecision_ResolvesAtOnce(decision) ==
    /\ importConflicts # <<>>
    /\ currentIndex < Len(importConflicts)
    /\ LET currentConflict == importConflicts[currentIndex + 1]
           newDecisions == [decisions EXCEPT ![currentConflict.incoming.id] = decision]
       IN  /\ Len(calls) + Len(OverwriteIdx(importConflicts, newDecisions)) + 1
                 <= MaxCalls
           /\ resolveImportConflicts(newDecisions)
           /\ imp' = [imp EXCEPT
                        !.phase = "writing",
                        !.choices = Append(@, decision),
                        !.resolutions = newDecisions,
                        !.newIds = NewIds(importConflicts, newDecisions, nextId)]
           /\ decisions' = NoDecisions
           /\ currentIndex' = 0
    /\ last' = Did(decision, currentIndex, TRUE)
    /\ UNCHANGED <<dataVars, uiVars, now, lastAlert>>
    /\ UNCHANGED <<viewVars, extVars, selVars>>

\* ImportDialog: handleDecision.
handleDecision(decision) ==
    /\ importConflicts # <<>>
    /\ currentIndex < Len(importConflicts)
    /\ LET currentConflict == importConflicts[currentIndex + 1]
           newDecisions == [decisions EXCEPT ![currentConflict.incoming.id] = decision]
       IN  IF currentIndex < Len(importConflicts) - 1
           THEN /\ decisions' = newDecisions
                /\ currentIndex' = currentIndex + 1
                /\ imp' = [imp EXCEPT !.choices = Append(@, decision)]
                /\ UNCHANGED <<importConflicts, pendingImport, calls, nextId>>
           ELSE /\ Len(calls) + Len(OverwriteIdx(importConflicts, newDecisions)) + 1
                      <= MaxCalls
                /\ resolveImportConflicts(newDecisions)
                /\ imp' = [imp EXCEPT
                             !.phase = "writing",
                             !.choices = Append(@, decision),
                             !.resolutions = newDecisions,
                             !.newIds = NewIds(importConflicts, newDecisions, nextId)]
                /\ decisions' = NoDecisions
                /\ currentIndex' = 0
    /\ last' = Did(decision, currentIndex, TRUE)
    /\ UNCHANGED <<dataVars, uiVars, now, lastAlert>>
    /\ UNCHANGED <<viewVars, extVars, selVars>>

\* Variant: cancelling applies the decisions made so far.
cancelImport_AppliesDecisions ==
    /\ importConflicts # <<>>
    /\ Len(calls) + Len(OverwriteIdx(importConflicts, decisions)) + 1 <= MaxCalls
    /\ resolveImportConflicts(decisions)
    /\ decisions' = NoDecisions
    /\ currentIndex' = 0
    /\ imp' = [imp EXCEPT !.phase = "cancelled"]
    /\ last' = Did("cancelImport", currentIndex, TRUE)
    /\ UNCHANGED <<dataVars, uiVars, now, lastAlert>>
    /\ UNCHANGED <<viewVars, extVars, selVars>>

\* ImportDialog onCancel.
cancelImport ==
    /\ importConflicts # <<>>
    /\ importConflicts' = <<>>
    /\ pendingImport' = NoPending
    /\ decisions' = NoDecisions
    /\ currentIndex' = 0
    /\ imp' = [imp EXCEPT !.phase = "cancelled"]
    /\ last' = Did("cancelImport", currentIndex, TRUE)
    /\ UNCHANGED <<dataVars, uiVars, calls, envVars, lastAlert>>
    /\ UNCHANGED <<viewVars, extVars, selVars>>

----------------------------------------------------------------------------
(* Completion of store calls *)

\* saveImportedBooks: await db.saveAllBooks(newBooks), then db.getAllBooks().
saveAllBooksDone(i) ==
    /\ i \in DOMAIN calls
    /\ calls[i].op = "saveAllBooks"
    /\ calls[i].cont = "import"
    /\ store' = saveAllBooks(store, calls[i].books)
    /\ calls' = Append(Remove(calls, i), Call("getAllBooks", <<>>, 0, "reload", ""))
    /\ last' = Did("saveAllBooksDone", 0, TRUE)
    /\ UNCHANGED <<legacy, books, isLoading, uiVars, dialogVars, envVars,
                   lastAlert, imp>>
    /\ UNCHANGED <<viewVars, extVars, selVars>>

\* Variant: the reloaded books are added to the collection.
getAllBooksDone_Appends(i) ==
    /\ i \in DOMAIN calls
    /\ calls[i].op = "getAllBooks"
    /\ calls[i].cont = "reload"
    /\ books' = books \o getAllBooks(store)
    /\ calls' = Remove(calls, i)
    /\ last' = Did("getAllBooksDone", 0, TRUE)
    /\ UNCHANGED <<store, legacy, isLoading, uiVars, dialogVars, envVars,
                   lastAlert, imp>>
    /\ UNCHANGED <<viewVars, extVars, selVars>>

\* saveImportedBooks: setBooks(allBooks).
getAllBooksDone(i) ==
    /\ i \in DOMAIN calls
    /\ calls[i].op = "getAllBooks"
    /\ calls[i].cont = "reload"
    /\ books' = getAllBooks(store)
    /\ calls' = Remove(calls, i)
    /\ last' = Did("getAllBooksDone", 0, TRUE)
    /\ UNCHANGED <<store, legacy, isLoading, uiVars, dialogVars, envVars,
                   lastAlert, imp>>
    /\ UNCHANGED <<viewVars, extVars, selVars>>

\* Variant: the completed delete does not update the collection.
overwriteDeleteDone_NoSetBooks(i) ==
    /\ i \in DOMAIN calls
    /\ calls[i].op = "deleteBook"
    /\ calls[i].cont = "overwrite"
    /\ store' = deleteBook(store, calls[i].id)
    /\ calls' = Remove(calls, i)
    /\ last' = Did("overwriteDeleteDone", calls[i].id, TRUE)
    /\ UNCHANGED <<legacy, books, isLoading, uiVars, dialogVars, envVars,
                   lastAlert, imp>>
    /\ UNCHANGED <<viewVars, extVars, selVars>>

\* resolveImportConflicts: db.deleteBook(c.existing.id).then(setBooks(filter)).
overwriteDeleteDone(i) ==
    /\ i \in DOMAIN calls
    /\ calls[i].op = "deleteBook"
    /\ calls[i].cont = "overwrite"
    /\ store' = deleteBook(store, calls[i].id)
    /\ books' = SelectSeq(books, LAMBDA b : b.id # calls[i].id)
    /\ calls' = Remove(calls, i)
    /\ last' = Did("overwriteDeleteDone", calls[i].id, TRUE)
    /\ UNCHANGED <<legacy, isLoading, uiVars, dialogVars, envVars,
                   lastAlert, imp>>
    /\ UNCHANGED <<viewVars, extVars, selVars>>

Tick ==
    /\ now < MaxClock
    /\ now' = now + 1
    /\ last' = Idle
    /\ imp' = NoImport
    /\ lastAlert' = NoAlert
    /\ UNCHANGED <<dataVars, uiVars, dialogVars, calls, nextId>>
    /\ UNCHANGED <<viewVars, extVars, selVars>>

----------------------------------------------------------------------------
(* One import on a loaded, quiescent application *)

InitLoaded ==
    /\ store \in InitStores
    /\ books = getAllBooks(store)
    /\ legacy = NoLegacy
    /\ isLoading = FALSE
    /\ view = "list"
    /\ editingBookId = 0
    /\ confirmConfig = NoConfirm
    /\ importConflicts = <<>>
    /\ pendingImport = NoPending
    /\ decisions = NoDecisions
    /\ currentIndex = 0
    /\ calls = <<>>
    /\ now = 1
    /\ nextId = FirstId
    /\ lastAlert = NoAlert
    /\ imp = NoImport
    /\ last = Idle
    /\ searchQuery = ""
    /\ activeTags = {}
    /\ sortField = "updatedAt"
    /\ exported = NoFile
    /\ mig = NoMig
    /\ selectionMode = FALSE
    /\ selectedIds = <<>>

\* No store call is in flight: the user starts an operation after the
\* previous one has completed.
Quiescent == calls = <<>>

NextImport ==
    \/ \E file \in ImportFiles :
          Quiescent /\ imp.phase = "idle" /\ handleImportClick(file)
    \/ \E decision \in {"skip", "overwrite"} : handleDecision(decision)
    \/ cancelImport
    \/ \E i \in 1..MaxCalls : saveAllBooksDone(i)
    \/ \E i \in 1..MaxCalls : getAllBooksDone(i)
    \/ \E i \in 1..MaxCalls : overwriteDeleteDone(i)

SpecImport == InitLoaded /\ [][NextImport]_vars

----------------------------------------------------------------------------
(* Properties of the import workflow (SpecImport) *)

\* Some existing book has this title, compared in lower case.
TitleTaken(t, bs) == \E j \in DOMAIN bs : toLowerCase(bs[j].title) = toLowerCase(t)

\* The elements of s at the positions in S, in order.
RECURSIVE SubseqAt(_, _)
SubseqAt(s, S) ==
    IF S = {} THEN <<>>
    ELSE LET m == CHOOSE i \in S : \A j \in S : j <= i
         IN  Append(SubseqAt(s, S \ {m}), s[m])

NoId(bs) == [k \in DOMAIN bs |-> [bs[k] EXCEPT !.id = 0]]

Distinct(s) == \A i, j \in DOMAIN s : i # j => s[i] # s[j]

ConflictingAt(b, bs) == {i \in DOMAIN b : b[i].title # "" /\ TitleTaken(b[i].title, bs)}

FreshAt(b, bs) == {i \in DOMAIN b : b[i].title # "" /\ ~TitleTaken(b[i].title, bs)}

\* What processImport must have made of batch b against collection bs.
Partitioned(b, bs, conflicts, fresh) ==
    /\ [k \in DOMAIN conflicts |-> conflicts[k].incoming]
          = SubseqAt(b, ConflictingAt(b, bs))
    /\ \A k \in DOMAIN conflicts :
          /\ conflicts[k].existing \in Range(bs)
          /\ toLowerCase(conflicts[k].existing.title)
                = toLowerCase(conflicts[k].incoming.title)
    /\ NoId(fresh) = NoId(SubseqAt(b, FreshAt(b, bs)))
    /\ \A k \in DOMAIN fresh :
          /\ fresh[k].id # 0
          /\ fresh[k].id \notin Ids(Range(bs)) \cup Ids(store)
    /\ Distinct([k \in DOMAIN fresh |-> fresh[k].id])
    /\ Len(conflicts) + Len(fresh)
          = Cardinality({i \in DOMAIN b : b[i].title # ""})

\* C1: processImport partitions the batch against the in-memory collection:
\* a record with a non-empty title is a conflict iff its lower-cased title
\* is the lower-cased title of an existing book, otherwise it is in the
\* non-conflicting set under a fresh identifier; records with an empty title
\* are in neither.
C1_Partition ==
    /\ imp.phase = "dialog" =>
          Partitioned(imp.batch, books, importConflicts, pendingImport.items)
    /\ (last.op = "import" /\ last.ok /\ imp.phase = "writing") =>
          /\ ConflictingAt(imp.batch, books) = {}
          /\ Len(calls) = 1
          /\ calls[1].op = "saveAllBooks"
          /\ Partitioned(imp.batch, books, <<>>, calls[1].books)

\* A conflict found through case folding beside a non-conflicting record,
\* and a record with an empty title dropped.
C1_Witness ==
    /\ imp.phase = "dialog"
    /\ Len(imp.batch) = 2
    /\ \E k \in DOMAIN importConflicts :
          importConflicts[k].existing.title # importConflicts[k].incoming.title
    /\ Len(importConflicts) = 1
    /\ \/ Len(pendingImport.items) = 1
       \/ \E i \in DOMAIN imp.batch : imp.batch[i].title = ""

\* C2 as stated: while conflicts are awaiting a decision the non-conflicting
\* records are already in the store.
C2_PersistedBeforeDecision ==
    (imp.phase = "dialog" /\ pendingImport.items # <<>>) =>
        \A k \in DOMAIN pendingImport.items : pendingImport.items[k] \in store

\* C2 (amended): one conflict is reported per conflicting record; while the
\* conflicts await a decision the non-conflicting records are held pending
\* and nothing is written; they reach the store when the last conflict has
\* been decided and the batch write completed, and never after a cancel.
C2_PendingUntilResolved ==
    /\ imp.phase = "dialog" =>
          /\ Len(importConflicts)
                = Cardinality(ConflictingAt(imp.batch, imp.booksAt))
          /\ pendingImport = [isNull |-> FALSE, items |-> imp.pending]
          /\ store = imp.storeAt
          /\ calls = <<>>
    /\ imp.phase = "cancelled" =>
          /\ store = imp.storeAt
          /\ calls = <<>>
          /\ pendingImport.isNull
    /\ (imp.phase = "writing" /\ calls = <<>>) =>
          \A k \in DOMAIN imp.pending : imp.pending[k] \in store

C2_Witness ==
    /\ imp.phase = "writing"
    /\ calls = <<>>
    /\ imp.conflicts # <<>>
    /\ imp.pending # <<>>
    /\ \A i \in DOMAIN imp.conflicts :
          imp.resolutions[imp.conflicts[i].incoming.id] = "skip"

\* Every store call of the import has completed.
ImportSettled == imp.phase = "writing" /\ calls = <<>>

Decision(i) == imp.resolutions[imp.conflicts[i].incoming.id]

Overwritten == {i \in DOMAIN imp.conflicts : Decision(i) = "overwrite"}

Skipped == {i \in DOMAIN imp.conflicts : Decision(i) = "skip"}

NewRecord(i) == [imp.conflicts[i].incoming EXCEPT !.id = imp.newIds[i]]

Occurrences(s, id) == Cardinality({k \in DOMAIN s : s[k].id = id})

\* C3: after resolution has completed, for every conflict decided
\* 'overwrite' the existing record is in neither the store nor the
\* collection, and one new record with the incoming record's fields and a
\* fresh identifier of its own is in both.
C3_Overwrite ==
    ImportSettled =>
        /\ \A i \in Overwritten :
              /\ imp.conflicts[i].existing.id \notin Ids(store)
              /\ Occurrences(books, imp.conflicts[i].existing.id) = 0
              /\ imp.newIds[i] \notin {0} \cup Ids(imp.storeAt) \cup Ids(Range(imp.pending))
              /\ NewRecord(i) \in store
              /\ NewRecord(i) \in Range(books)
              /\ Occurrences(books, imp.newIds[i]) = 1
        /\ \A i, j \in Overwritten : i # j => imp.newIds[i] # imp.newIds[j]

C3_Witness ==
    /\ ImportSettled
    /\ Overwritten # {}
    /\ \E i \in Overwritten : imp.conflicts[i].existing \in imp.storeAt

\* C4 as stated: a skipped conflict leaves its existing record in the store
\* and in the collection, whatever else the batch holds.
C4_SkipKeepsExisting ==
    ImportSettled =>
        \A i \in Skipped :
            /\ imp.conflicts[i].existing \in store
            /\ imp.conflicts[i].existing \in Range(books)

\* C4 (amended): after resolution has completed, a conflict decided 'skip'
\* has added no record, and its existing record is still, unchanged, in the
\* store and in the collection unless another conflict of the batch paired
\* with the same existing book was decided 'overwrite' (then it is deleted).
C4_SkipKeepsExistingUnlessOverwritten ==
    ImportSettled =>
        /\ \A i \in Skipped :
              /\ imp.newIds[i] = 0
              /\ IF \E j \in Overwritten :
                       imp.conflicts[j].existing.id = imp.conflicts[i].existing.id
                 THEN imp.conflicts[i].existing.id \notin Ids(store) \cup Ids(Range(books))
                 ELSE /\ imp.conflicts[i].existing \in store
                      /\ imp.conflicts[i].existing \in Range(books)
        /\ Cardinality(store \ imp.storeAt)
              = Len(imp.pending) + Cardinality(Overwritten)

\* A skipped conflict beside an overwritten one on another book.
C4_Witness ==
    /\ ImportSettled
    /\ Overwritten # {}
    /\ \E i \in Skipped :
          /\ imp.conflicts[i].existing \in store
          /\ imp.conflicts[i].existing \in Range(books)

\* The batch resolveImportConflicts must write: the pending records, then
\* the incoming record of each conflict decided 'overwrite'.
ExpectedBatch == imp.pending \o SubseqAt([i \in DOMAIN imp.conflicts |-> NewRecord(i)], Overwritten)

\* C5: the pending non-conflicting records and the overwrite-decided incoming
\* records are written by one saveAllBooks call, and when that write, the
\* reload and every overwrite delete have completed, in whatever order, the
\* in-memory collection holds exactly the store's records.
C5_ReloadConsistent ==
    /\ imp.phase = "writing" =>
          /\ Cardinality({k \in DOMAIN calls : calls[k].op = "saveAllBooks"}) <= 1
          /\ \A k \in DOMAIN calls :
                calls[k].op = "saveAllBooks" => calls[k].books = ExpectedBatch
    /\ ImportSettled =>
          /\ Range(books) = store
          /\ Len(books) = Cardinality(store)
          /\ store = saveAllBooks(
                        {b \in imp.storeAt :
                            \A i \in Overwritten : imp.conflicts[i].existing.id # b.id},
                        ExpectedBatch)

\* A delete that completed after the reload, in an import that also wrote a
\* non-conflicting record.
C5_Witness ==
    /\ ImportSettled
    /\ last.op = "overwriteDeleteDone"
    /\ imp.pending # <<>>
    /\ Overwritten # {}

----------------------------------------------------------------------------
(* App.tsx: the record lifecycle *)

\* What NoteEditor's handleSave passes to onSave (the title is not blank).
Drafts ==
    { [title |-> "Bar", protagonists |-> <<"p">>, rating |-> 5, tags |-> <<"t">>,
       entries |-> <<>>] }

\* No dialog covers the page.
PageReachable ==
    /\ ~isLoading
    /\ importConflicts = <<>>
    /\ ~confirmConfig.isOpen

\* NoteCard onClick outside selection mode.
openBook(id) ==
    /\ PageReachable
    /\ view = "list"
    /\ ~selectionMode
    /\ id \in Ids(Range(books))
    /\ editingBookId' = id
    /\ view' = "editor"
    /\ last' = Idle
    /\ imp' = NoImport
    /\ lastAlert' = NoAlert
    /\ UNCHANGED <<dataVars, confirmConfig, dialogVars, calls, envVars>>
    /\ UNCHANGED <<viewVars, extVars, selVars>>

\* The floating action button.
addBook ==
    /\ PageReachable
    /\ view = "list"
    /\ ~selectionMode
    /\ editingBookId' = 0
    /\ view' = "editor"
    /\ last' = Idle
    /\ imp' = NoImport
    /\ lastAlert' = NoAlert
    /\ UNCHANGED <<dataVars, confirmConfig, dialogVars, calls, envVars>>
    /\ UNCHANGED <<viewVars, extVars, selVars>>

\* NoteEditor onCancel.
closeEditor ==
    /\ PageReachable
    /\ view = "editor"
    /\ view' = "list"
    /\ editingBookId' = 0
    /\ last' = Idle
    /\ imp' = NoImport
    /\ lastAlert' = NoAlert
    /\ UNCHANGED <<dataVars, confirmConfig, dialogVars, calls, envVars>>
    /\ UNCHANGED <<viewVars, extVars, selVars>>

\* books.find(b => b.id === id)
Find(bs, id) == bs[CHOOSE k \in DOMAIN bs : bs[k].id = id /\ \A j \in 1..(k - 1) : bs[j].id # id]

\* Variant: the update restamps createdAt as well.
updatedBook_Restamped(existingBook, bookData, t) ==
    [existingBook EXCEPT !.title = bookData.title,
                         !.protagonists = bookData.protagonists,
                         !.rating = bookData.rating,
                         !.tags = bookData.tags,
                         !.entries = bookData.entries,
                         !.createdAt = t,
                         !.updatedAt = t]

\* { ...existingBook, ...bookData, updatedAt: now }
updatedBook(existingBook, bookData, t) ==
    [existingBook EXCEPT !.title = bookData.title,
                         !.protagonists = bookData.protagonists,
                         !.rating = bookData.rating,
                         !.tags = bookData.tags,
                         !.entries = bookData.entries,
                         !.updatedAt = t]

\* Variant: createdAt is left unset.
createdBook_NoCreatedAt(bookData, id, t) ==
    Book(id, bookData.title, bookData.protagonists, bookData.rating,
         bookData.tags, bookData.entries, 0, t)

\* { ...bookData, id: generateId(), createdAt: now, updatedAt: now }
createdBook(bookData, id, t) ==
    Book(id, bookData.title, bookData.protagonists, bookData.rating,
         bookData.tags, bookData.entries, t, t)

\* Variant: an identifier that is not in the collection is saved as new.
handleSaveBook_SavesMissing(bookData, id) ==
    /\ PageReachable
    /\ view = "editor"
    /\ IF id # 0 /\ id \in Ids(Range(books))
       THEN /\ calls' = Append(calls,
                   Call("saveBook", <<updatedBook(Find(books, id), bookData, now)>>,
                        id, "save", ""))
            /\ last' = Idle
            /\ UNCHANGED nextId
       ELSE /\ nextId <= MaxId
            /\ calls' = Append(calls,
                   Call("saveBook", <<createdBook(bookData, nextId, now)>>,
                        0, "save", ""))
            /\ last' = IF id # 0 THEN Did("update", id, FALSE) ELSE Idle
            /\ nextId' = nextId + 1
    /\ imp' = NoImport
    /\ lastAlert' = NoAlert
    /\ UNCHANGED <<dataVars, uiVars, dialogVars, now>>
    /\ UNCHANGED <<viewVars, extVars, selVars>>

\* handleSaveBook up to `await db.saveBook(bookToSave)`.  The editor passes
\* initialNote?.id; the handler takes any identifier.
handleSaveBook(bookData, id) ==
    /\ PageReachable
    /\ view = "editor"
    /\ IF id # 0
       THEN IF id \notin Ids(Range(books))
            THEN /\ last' = Did("update", id, FALSE)
                 /\ UNCHANGED <<calls, nextId>>
            ELSE /\ calls' = Append(calls,
                        Call("saveBook", <<updatedBook(Find(books, id), bookData, now)>>,
                             id, "save", ""))
                 /\ last' = Idle
                 /\ UNCHANGED nextId
       ELSE /\ nextId <= MaxId
            /\ calls' = Append(calls,
                   Call("saveBook", <<createdBook(bookData, nextId, now)>>,
                        0, "save", ""))
            /\ last' = Idle
            /\ nextId' = nextId + 1
    /\ imp' = NoImport
    /\ lastAlert' = NoAlert
    /\ UNCHANGED <<dataVars, uiVars, dialogVars, now>>
    /\ UNCHANGED <<viewVars, extVars, selVars>>

\* Variant: the new book is appended.
savedBooks_Appended(bs, b, id) ==
    IF id # 0
    THEN [k \in DOMAIN bs |-> IF bs[k].id = id THEN b ELSE bs[k]]
    ELSE Append(bs, b)

\* setBooks(prev => id ? prev.map(...) : [bookToSave, ...prev])
savedBooks(bs, b, id) ==
    IF id # 0
    THEN [k \in DOMAIN bs |-> IF bs[k].id = id THEN b ELSE bs[k]]
    ELSE <<b>> \o bs

\* handleSaveBook after `await db.saveBook(bookToSave)`.
saveBookDone(i) ==
    /\ i \in DOMAIN calls
    /\ calls[i].op = "saveBook"
    /\ store' = saveBook(store, calls[i].books[1])
    /\ books' = savedBooks(books, calls[i].books[1], calls[i].id)
    /\ view' = "list"
    /\ editingBookId' = 0
    /\ calls' = Remove(calls, i)
    /\ last' = Idle
    /\ UNCHANGED <<legacy, isLoading, confirmConfig, dialogVars, envVars,
                   lastAlert, imp>>
    /\ UNCHANGED <<viewVars, extVars, selVars>>

\* Variant: the store delete is issued without asking.
handleDeleteBook_NoConfirm(id) ==
    /\ PageReachable
    /\ view = "editor"
    /\ id = editingBookId
    /\ id \in Ids(Range(books))
    /\ calls' = Append(calls, Call("deleteBook", <<>>, id, "confirm", view))
    /\ last' = Idle
    /\ imp' = NoImport
    /\ lastAlert' = NoAlert
    /\ UNCHANGED <<dataVars, uiVars, dialogVars, envVars>>
    /\ UNCHANGED <<viewVars, extVars, selVars>>

\* handleDeleteBook: NoteEditor's delete button, shown for initialNote.
handleDeleteBook(id) ==
    /\ PageReachable
    /\ view = "editor"
    /\ id = editingBookId
    /\ id \in Ids(Range(books))
    /\ confirmConfig' = [isOpen |-> TRUE, kind |-> "delete", id |-> id, view |-> view,
                         ids |-> <<>>]
    /\ last' = Idle
    /\ imp' = NoImport
    /\ lastAlert' = NoAlert
    /\ UNCHANGED <<dataVars, view, editingBookId, dialogVars, calls, envVars>>
    /\ UNCHANGED <<viewVars, extVars, selVars>>

\* ConfirmDialog onConfirm, up to `await db.deleteBook(id)`.
confirmDelete ==
    /\ confirmConfig.isOpen
    /\ confirmConfig.kind = "delete"
    /\ calls' = Append(calls, Call("deleteBook", <<>>, confirmConfig.id, "confirm",
                                   confirmConfig.view))
    /\ last' = Idle
    /\ UNCHANGED <<dataVars, uiVars, dialogVars, envVars, lastAlert, imp>>
    /\ UNCHANGED <<viewVars, extVars, selVars>>

\* ConfirmDialog onCancel: setConfirmConfig(prev => ({ ...prev, isOpen: false })).
\* The message and onConfirm of a closed dialog are never read again (the
\* next open replaces both), so a closed dialog is held as NoConfirm.
cancelConfirm ==
    /\ confirmConfig.isOpen
    /\ confirmConfig' = NoConfirm
    /\ last' = Idle
    /\ UNCHANGED <<dataVars, view, editingBookId, dialogVars, calls, envVars,
                   lastAlert, imp>>
    /\ UNCHANGED <<viewVars, extVars, selVars>>

\* onConfirm after `await db.deleteBook(id)`.
confirmDeleteDone(i) ==
    /\ i \in DOMAIN calls
    /\ calls[i].op = "deleteBook"
    /\ calls[i].cont = "confirm"
    /\ store' = deleteBook(store, calls[i].id)
    /\ books' = SelectSeq(books, LAMBDA b : b.id # calls[i].id)
    /\ IF calls[i].view = "editor"
       THEN view' = "list" /\ editingBookId' = 0
       ELSE UNCHANGED <<view, editingBookId>>
    /\ confirmConfig' = NoConfirm
    /\ calls' = Remove(calls, i)
    /\ last' = Idle
    /\ UNCHANGED <<legacy, isLoading, dialogVars, envVars, lastAlert, imp>>
    /\ UNCHANGED <<viewVars, extVars, selVars>>

\* The record lifecycle on a loaded application.
NextCrud ==
    \/ \E id \in 1..MaxId : openBook(id)
    \/ addBook
    \/ closeEditor
    \/ \E bookData \in Drafts, id \in 0..MaxId :
          Quiescent /\ handleSaveBook(bookData, id)
    \/ \E i \in 1..MaxCalls : saveBookDone(i)
    \/ \E id \in 1..MaxId : handleDeleteBook(id)
    \/ Quiescent /\ confirmDelete
    \/ cancelConfirm
    \/ \E i \in 1..MaxCalls : confirmDeleteDone(i)
    \/ Tick

SpecCrud == InitLoaded /\ [][NextCrud]_vars

----------------------------------------------------------------------------
(* Properties of the record lifecycle (SpecCrud) *)

\* The call a step issues, if it issues exactly one.
Issued == calls'[Len(calls')]

IssuesOne(op) == Len(calls') = Len(calls) + 1 /\ Issued.op = op

\* The step completes the store call at position i.
Completes(i, op) ==
    /\ i \in DOMAIN calls
    /\ calls[i].op = op
    /\ calls' = Remove(calls, i)

UsedIds == Ids(store) \cup Ids(Range(books))

\* C6: saving a new book (handleSaveBook without an id) adds exactly one
\* record to the store and prepends that same record to the in-memory
\* collection; the record has createdAt = updatedAt and an identifier that no
\* record had before the call.
C6_Create ==
    [][ /\ (IssuesOne("saveBook") /\ Issued.id = 0) =>
              LET b == Issued.books[1]
              IN  /\ b.id # 0
                  /\ b.id \notin UsedIds
                  /\ b.createdAt = now
                  /\ b.updatedAt = b.createdAt
        /\ \A i \in DOMAIN calls :
              (Completes(i, "saveBook") /\ calls[i].id = 0) =>
                 LET b == calls[i].books[1]
                 IN  /\ b.id \notin UsedIds
                     /\ b.createdAt = b.updatedAt
                     /\ store' = store \cup {b}
                     /\ Cardinality(store') = Cardinality(store) + 1
                     /\ books' = <<b>> \o books
      ]_vars

\* A book created after the clock has advanced, in front of the books that
\* were there before.
C6_Witness ==
    /\ calls = <<>>
    /\ Len(books) >= 2
    /\ books[1].id >= FirstId
    /\ books[2].id < FirstId
    /\ books[1] \in store
    /\ books[1].createdAt = MaxClock
    /\ books[1].updatedAt = MaxClock

\* C8: an update whose identifier is not in the in-memory collection is a
\* silent no-op: no store call is issued, store and collection are unchanged
\* and no alert is shown.
C8_MissingUpdateIsNoOp ==
    [][ (last'.op = "update" /\ ~last'.ok) =>
           /\ last'.id \notin Ids(Range(books))
           /\ UNCHANGED <<store, books, calls, nextId>>
           /\ lastAlert'.msg = "none"
      ]_vars

\* An update for an identifier that is not among a non-empty collection's.
C8_Witness ==
    /\ last.op = "update"
    /\ ~last.ok
    /\ last.id # 0
    /\ books # <<>>
    /\ last.id \notin Ids(Range(books))
    /\ store = Range(books)
    /\ calls = <<>>

\* C9: the store delete is issued only from an open confirmation for that
\* book; a record leaves the store only when such a call completes, and
\* leaves the in-memory collection only in a step after which the store no
\* longer has it; when the delete was requested from the editor its
\* completion shows the list with no book being edited; closing the
\* confirmation changes neither store nor collection.
C9_DeleteAfterConfirm ==
    [][ /\ IssuesOne("deleteBook") =>
              /\ confirmConfig.isOpen
              /\ confirmConfig.kind = "delete"
              /\ confirmConfig.id = Issued.id
        /\ \A b \in store :
              b.id \notin Ids(store') =>
                 \E i \in DOMAIN calls :
                    Completes(i, "deleteBook") /\ calls[i].id = b.id
        /\ \A k \in DOMAIN books :
              books[k].id \notin Ids(Range(books')) =>
                 /\ books[k].id \notin Ids(store')
                 /\ \E i \in DOMAIN calls :
                       Completes(i, "deleteBook") /\ calls[i].id = books[k].id
        /\ \A i \in DOMAIN calls :
              (Completes(i, "deleteBook") /\ calls[i].view = "editor") =>
                 /\ calls[i].id \notin Ids(store') \cup Ids(Range(books'))
                 /\ view' = "list"
                 /\ editingBookId' = 0
        /\ (confirmConfig.isOpen /\ ~confirmConfig'.isOpen /\ calls' = calls) =>
              UNCHANGED <<store, books>>
      ]_vars

\* A book created in this run has been deleted from the editor: it is in
\* neither store nor collection, other books remain, and the list is shown.
C9_Witness ==
    /\ calls = <<>>
    /\ nextId = FirstId + 1
    /\ FirstId \notin UsedIds
    /\ store # {}
    /\ store = Range(books)
    /\ view = "list"
    /\ editingBookId = 0
    /\ ~confirmConfig.isOpen

----------------------------------------------------------------------------
(* App.tsx: startup *)

\* Variant: the legacy key is removed before the write is awaited.
initData_ClearsFirst ==
    /\ isLoading
    /\ calls = <<>>
    /\ IF legacy.present /\ legacy.parses
       THEN /\ nextId + MigrateIds(legacy) - 1 <= MaxId
            /\ calls' = << Call("saveAllBooks",
                                migrateNotesToBooks(legacy, now, nextId),
                                0, "migrate", "") >>
            /\ nextId' = nextId + MigrateIds(legacy)
            /\ legacy' = NoLegacy
       ELSE /\ calls' = << Call("getAllBooks", <<>>, 0, "init", "") >>
            /\ UNCHANGED <<nextId, legacy>>
    /\ imp' = NoImport
    /\ lastAlert' = NoAlert
    /\ last' = Idle
    /\ UNCHANGED <<store, books, isLoading, uiVars, dialogVars, now>>
    /\ UNCHANGED <<viewVars, extVars, selVars>>

\* initData up to its first await.
initData ==
    /\ isLoading
    /\ calls = <<>>
    /\ IF legacy.present /\ legacy.parses
       THEN /\ nextId + MigrateIds(legacy) - 1 <= MaxId
            /\ calls' = << Call("saveAllBooks",
                                migrateNotesToBooks(legacy, now, nextId),
                                0, "migrate", "") >>
            /\ nextId' = nextId + MigrateIds(legacy)
       ELSE /\ calls' = << Call("getAllBooks", <<>>, 0, "init", "") >>
            /\ UNCHANGED nextId
    /\ imp' = NoImport
    /\ lastAlert' = NoAlert
    /\ last' = Idle
    /\ UNCHANGED <<dataVars, uiVars, dialogVars, now>>
    /\ UNCHANGED <<viewVars, extVars, selVars>>

\* initData after `await db.saveAllBooks(migratedBooks)`.
migrateDone(i) ==
    /\ i \in DOMAIN calls
    /\ calls[i].op = "saveAllBooks"
    /\ calls[i].cont = "migrate"
    /\ store' = saveAllBooks(store, calls[i].books)
    /\ legacy' = NoLegacy
    /\ calls' = Append(Remove(calls, i), Call("getAllBooks", <<>>, 0, "init", ""))
    /\ last' = Idle
    /\ UNCHANGED <<books, isLoading, uiVars, dialogVars, envVars, lastAlert, imp>>
    /\ UNCHANGED <<viewVars, extVars, selVars>>

\* initData after `await db.getAllBooks()`.
initLoadDone(i) ==
    /\ i \in DOMAIN calls
    /\ calls[i].op = "getAllBooks"
    /\ calls[i].cont = "init"
    /\ books' = getAllBooks(store)
    /\ isLoading' = FALSE
    /\ calls' = Remove(calls, i)
    /\ last' = Idle
    /\ UNCHANGED <<store, legacy, uiVars, dialogVars, envVars, lastAlert, imp>>
    /\ UNCHANGED <<viewVars, extVars, selVars>>

----------------------------------------------------------------------------
(* The application: startup, the record lifecycle and import *)

\* Import files of at most one record.
SmallFiles == {f \in ImportFiles : Len(f.items) <= 1}

Init ==
    /\ \/ store \in InitStores /\ legacy = NoLegacy
       \/ store = {} /\ legacy \in LegacyData
    /\ books = <<>>
    /\ isLoading = TRUE
    /\ view = "list"
    /\ editingBookId = 0
    /\ confirmConfig = NoConfirm
    /\ importConflicts = <<>>
    /\ pendingImport = NoPending
    /\ decisions = NoDecisions
    /\ currentIndex = 0
    /\ calls = <<>>
    /\ now = 1
    /\ nextId = FirstId
    /\ lastAlert = NoAlert
    /\ imp = NoImport
    /\ last = Idle
    /\ searchQuery = ""
    /\ activeTags = {}
    /\ sortField = "updatedAt"
    /\ exported = NoFile
    /\ mig = NoMig
    /\ selectionMode = FALSE
    /\ selectedIds = <<>>

Next ==
    \/ initData
    \/ \E i \in 1..MaxCalls : migrateDone(i)
    \/ \E i \in 1..MaxCalls : initLoadDone(i)
    \/ \E id \in 1..MaxId : openBook(id)
    \/ addBook
    \/ closeEditor
    \/ \E bookData \in Drafts, id \in 0..MaxId :
          Quiescent /\ handleSaveBook(bookData, id)
    \/ \E i \in 1..MaxCalls : saveBookDone(i)
    \/ \E id \in 1..MaxId : handleDeleteBook(id)
    \/ Quiescent /\ confirmDelete
    \/ cancelConfirm
    \/ \E i \in 1..MaxCalls : confirmDeleteDone(i)
    \/ \E file \in SmallFiles : Quiescent /\ handleImportClick(file)
    \/ \E decision \in {"skip", "overwrite"} : handleDecision(decision)
    \/ cancelImport
    \/ \E i \in 1..MaxCalls : saveAllBooksDone(i)
    \/ \E i \in 1..MaxCalls : getAllBooksDone(i)
    \/ \E i \in 1..MaxCalls : overwriteDeleteDone(i)
    \/ Tick

Spec == Init /\ [][Next]_vars

----------------------------------------------------------------------------
(* Properties of the application (Spec) *)

\* C7: an update leaves the book's id and createdAt unchanged and sets its
\* updatedAt to a value not below the previous one, for every book in the
\* collection, however it got there.
C7_UpdateAdvances ==
    [][ \A i \in DOMAIN calls :
           (Completes(i, "saveBook") /\ calls[i].id # 0) =>
              \A k \in DOMAIN books :
                 books[k].id = calls[i].id =>
                    /\ books'[k].id = books[k].id
                    /\ books'[k].createdAt = books[k].createdAt
                    /\ books'[k].updatedAt >= books[k].updatedAt
      ]_vars

\* C10: every book in the store and in the in-memory collection has
\* updatedAt >= createdAt.
C10_UpdatedNotBeforeCreated ==
    \A b \in store \cup Range(books) : b.updatedAt >= b.createdAt

----------------------------------------------------------------------------
(* utils: migrateNotesToBooks applied on its own, once and then to its own *)
(* result                                                                  *)

\* Records as the legacy format and the current format write them: content
\* or images without entries, entries (possibly none) beside content, a
\* protagonist string, a protagonists array, absent timestamps, no identifier.
MigrateRecords ==
    { LegacyNote(1, "Foo", "p", FALSE, <<>>, 3, <<"t">>, "x", <<>>, 1, 1, FALSE, <<>>),
      LegacyNote(2, "Bar", "", FALSE, <<>>, 0, <<>>, "", <<"i">>, 0, 0, FALSE, <<>>),
      LegacyNote(3, "foo", "p", TRUE, <<"q">>, 0, <<>>, "x", <<>>, 1, 2, TRUE,
                 << Entry(9, "y", <<>>, 1) >>),
      LegacyNote(0, "", "", TRUE, <<>>, 0, <<>>, "x", <<"i">>, 0, 1, TRUE, <<>>),
      LegacyNote(2, "Foo", "", FALSE, <<>>, 5, <<>>, "", <<>>, 2, 0, FALSE, <<>>) }

\* The argument: a JSON value that is not an array, or an array of records.
MigrateInputs ==
    { [isArray |-> FALSE, items |-> <<>>] }
    \cup { [isArray |-> TRUE, items |-> s] : s \in SeqsUpTo(MigrateRecords, MaxBatch) }

\* data.map((item: LegacyNote) => ...) reading a Book: the properties a Book
\* does not have (content, images, protagonist) are undefined, its arrays
\* are present.
asLegacyNote(b) ==
    LegacyNote(b.id, b.title, "", TRUE, b.protagonists, b.rating, b.tags, "",
               <<>>, b.createdAt, b.updatedAt, TRUE, b.entries)

asData(bs) == [isArray |-> TRUE, items |-> [i \in DOMAIN bs |-> asLegacyNote(bs[i])]]

migrateFirst ==
    /\ mig.pass = 0
    /\ nextId + MigrateIds(mig.data) - 1 <= MaxId
    /\ mig' = [mig EXCEPT !.pass = 1, !.t1 = now,
                          !.first = migrateNotesToBooks(mig.data, now, nextId)]
    /\ nextId' = nextId + MigrateIds(mig.data)
    /\ UNCHANGED <<dataVars, uiVars, dialogVars, calls, now, lastAlert, imp, last,
                   viewVars, exported, selVars>>

migrateSecond ==
    /\ mig.pass = 1
    /\ nextId + MigrateIds(asData(mig.first)) - 1 <= MaxId
    /\ mig' = [mig EXCEPT !.pass = 2, !.t2 = now,
                          !.second = migrateNotesToBooks(asData(mig.first), now, nextId)]
    /\ nextId' = nextId + MigrateIds(asData(mig.first))
    /\ UNCHANGED <<dataVars, uiVars, dialogVars, calls, now, lastAlert, imp, last,
                   viewVars, exported, selVars>>

InitMigrate ==
    /\ mig \in {[NoMig EXCEPT !.data = d] : d \in MigrateInputs}
    /\ selectionMode = FALSE
    /\ selectedIds = <<>>
    /\ store = {}
    /\ books = <<>>
    /\ legacy = NoLegacy
    /\ isLoading = FALSE
    /\ view = "list"
    /\ editingBookId = 0
    /\ confirmConfig = NoConfirm
    /\ importConflicts = <<>>
    /\ pendingImport = NoPending
    /\ decisions = NoDecisions
    /\ currentIndex = 0
    /\ calls = <<>>
    /\ now = 1
    /\ nextId = FirstId
    /\ lastAlert = NoAlert
    /\ imp = NoImport
    /\ last = Idle
    /\ searchQuery = ""
    /\ activeTags = {}
    /\ sortField = "updatedAt"
    /\ exported = NoFile

NextMigrate ==
    \/ migrateFirst
    \/ migrateSecond
    \/ Tick

SpecMigrate == InitMigrate /\ [][NextMigrate]_vars

\* C11: migrateNotesToBooks applied to its own result returns that result:
\* the same books with the same identifiers, entries, protagonists, rating,
\* tags and timestamps, whatever the clock and the identifier generator give
\* the second pass.
C11_Idempotent == mig.pass = 2 => mig.second = mig.first

\* The second pass ran at a later time than the first, on the result of a
\* pass that had defaulted a timestamp and synthesized an entry.
C11_Witness ==
    /\ mig.pass = 2
    /\ mig.t2 > mig.t1
    /\ \E i \in DOMAIN mig.data.items :
          /\ mig.data.items[i].createdAt = 0
          /\ Synthesizes(mig.data.items[i])
          /\ Len(mig.first[i].entries) = 1

\* C12: for an array, migrateNotesToBooks returns one book per record, in
\* the records' order, each under its record's identifier.
C12_OnePerRecord ==
    (mig.pass >= 1 /\ mig.data.isArray) =>
       /\ Len(mig.first) = Len(mig.data.items)
       /\ \A i \in DOMAIN mig.data.items :
             /\ mig.first[i].id = mig.data.items[i].id
             /\ mig.first[i].title = mig.data.items[i].title

\* Two records, one of which got a synthesized entry with an identifier of
\* its own.
C12_Witness ==
    /\ mig.pass = 1
    /\ Len(mig.data.items) = 2
    /\ mig.data.items[1].id # mig.data.items[2].id
    /\ \E i \in DOMAIN mig.first :
          /\ Len(mig.first[i].entries) = 1
          /\ mig.first[i].entries[1].id >= FirstId

\* C13: a record's entries array is kept as it is; without one, content or
\* a non-empty images array gives exactly one entry with that content and
\* those images, created at the record's updatedAt (the time of the pass if
\* it has none); otherwise the book has no entries.
C13_Entries ==
    mig.pass >= 1 =>
       \A i \in DOMAIN mig.data.items :
          LET item == mig.data.items[i]
              es   == mig.first[i].entries
          IN  IF item.hasEntries
              THEN es = item.entries
              ELSE IF item.content # "" \/ item.images # <<>>
              THEN /\ Len(es) = 1
                   /\ es[1].content = item.content
                   /\ es[1].images = item.images
                   /\ es[1].createdAt =
                         (IF item.updatedAt # 0 THEN item.updatedAt ELSE mig.t1)
              ELSE es = <<>>

\* One pass over a record with images and no content or updatedAt, after
\* the clock has advanced, and over a record that has entries and content.
C13_Witness ==
    /\ mig.pass = 1
    /\ mig.t1 = MaxClock
    /\ \E i, j \in DOMAIN mig.data.items :
          /\ ~mig.data.items[i].hasEntries
          /\ mig.data.items[i].content = ""
          /\ mig.data.items[i].updatedAt = 0
          /\ Len(mig.first[i].entries) = 1
          /\ mig.data.items[j].hasEntries
          /\ mig.data.items[j].content # ""

----------------------------------------------------------------------------
(* The displayed view: utils filterBooks and App.tsx filteredBooks *)

\* JavaScript values handed to filterBooks as `activeTag`: null, a string,
\* or a Set object (App.tsx passes the activeTags state, a Set<string>).
JsNull == [kind |-> "null", str |-> "", elems |-> {}]

JsString(str) == [kind |-> "string", str |-> str, elems |-> {}]

JsSet(elems) == [kind |-> "set", str |-> "", elems |-> elems]

\* Variant: a Set without elements counts as false.
Truthy_EmptySetIsFalse(x) ==
    CASE x.kind = "null"   -> FALSE
      [] x.kind = "string" -> x.str # ""
      [] OTHER             -> x.elems # {}

\* if (x): null and '' are falsy, every object (an empty Set too) is truthy.
Truthy(x) ==
    CASE x.kind = "null"   -> FALSE
      [] x.kind = "string" -> x.str # ""
      [] OTHER             -> TRUE

\* Array.prototype.includes on an array of strings: SameValueZero, so an
\* object is found only if the array holds that very object.
includes(arr, x) == x.kind = "string" /\ \E k \in DOMAIN arr : arr[k] = x.str

\* String.prototype.trim on the queries used here.
trim(str) == IF str = " " THEN "" ELSE str

\* String.prototype.toLowerCase on the queries and texts used here.
lower(str) ==
    CASE str = "FO" -> "fo"
      [] OTHER -> toLowerCase(str)

\* String.prototype.includes on the lower-cased texts and queries used here.
strIncludes(str, q) ==
    \/ q = ""
    \/ str = q
    \/ q = "fo" /\ str = "foo"

matchesQuery(b, lowerQuery) ==
    \/ strIncludes(lower(b.title), lowerQuery)
    \/ \E k \in DOMAIN b.protagonists : strIncludes(lower(b.protagonists[k]), lowerQuery)
    \/ \E k \in DOMAIN b.tags : strIncludes(lower(b.tags[k]), lowerQuery)
    \/ \E k \in DOMAIN b.entries : strIncludes(lower(b.entries[k].content), lowerQuery)

\* filterBooks(books, query, activeTag).  `same` says that the array
\* returned is the array passed in (no filter ran) and not a new one.
filterBooks(bs, query, activeTag) ==
    LET byTag == IF Truthy(activeTag)
                 THEN SelectSeq(bs, LAMBDA b : includes(b.tags, activeTag))
                 ELSE bs
        byQuery == IF trim(query) # ""
                   THEN SelectSeq(byTag, LAMBDA b : matchesQuery(b, lower(query)))
                   ELSE byTag
    IN  [same |-> ~Truthy(activeTag) /\ trim(query) = "", items |-> byQuery]

sortKey(b, field) ==
    CASE field = "rating"    -> b.rating
      [] field = "createdAt" -> b.createdAt
      [] OTHER               -> b.updatedAt

\* Array.prototype.sort with (a, b) => b[field] - a[field]: descending, and
\* stable (ECMAScript 2019).
sorted(arr, field) ==
    LET pos(i) == 1 + Cardinality({j \in DOMAIN arr :
                        \/ sortKey(arr[j], field) > sortKey(arr[i], field)
                        \/ sortKey(arr[j], field) = sortKey(arr[i], field) /\ j < i})
    IN  [p \in DOMAIN arr |-> arr[CHOOSE i \in DOMAIN arr : pos(i) = p]]

\* const filteredBooks = useMemo(...): the value.
filteredBooks ==
    sorted(filterBooks(books, searchQuery, JsSet(activeTags)).items, sortField)

\* The useMemo callback runs: filtered.sort sorts in place, so it reorders
\* `books` itself if filterBooks returned the array it was given.
render ==
    /\ ~isLoading
    /\ view = "list"
    /\ books' = IF filterBooks(books, searchQuery, JsSet(activeTags)).same
                THEN sorted(books, sortField)
                ELSE books
    /\ last' = Did("render", 0, TRUE)
    /\ UNCHANGED <<store, legacy, isLoading, uiVars, dialogVars, calls, envVars,
                   lastAlert, imp, viewVars, extVars, selVars>>

Queries == {"", " ", "FO", "x", "bar"}

setSearchQuery(q) ==
    /\ ~isLoading
    /\ view = "list"
    /\ searchQuery' = q
    /\ last' = Idle
    /\ UNCHANGED <<dataVars, uiVars, dialogVars, calls, envVars, lastAlert, imp,
                   activeTags, sortField, extVars, selVars>>

\* const allTags = useMemo(...)
allTags == UNION {Range(b.tags) : b \in Range(books)}

\* TagFilterDialog onApply.
applyTags(tags) ==
    /\ ~isLoading
    /\ view = "list"
    /\ tags \subseteq allTags
    /\ activeTags' = tags
    /\ last' = Idle
    /\ UNCHANGED <<dataVars, uiVars, dialogVars, calls, envVars, lastAlert, imp,
                   searchQuery, sortField, extVars, selVars>>

\* The X of an active tag's chip.
removeTag(tag) ==
    /\ ~isLoading
    /\ view = "list"
    /\ tag \in activeTags
    /\ activeTags' = activeTags \ {tag}
    /\ last' = Idle
    /\ UNCHANGED <<dataVars, uiVars, dialogVars, calls, envVars, lastAlert, imp,
                   searchQuery, sortField, extVars, selVars>>

setSortField(field) ==
    /\ ~isLoading
    /\ view = "list"
    /\ sortField' = field
    /\ last' = Idle
    /\ UNCHANGED <<dataVars, uiVars, dialogVars, calls, envVars, lastAlert, imp,
                   searchQuery, activeTags, extVars, selVars>>

\* Books with tags, ratings, entries and timestamps that sort differently
\* under each sort key.
ViewBooks ==
    { Book(1, "Foo", <<"p">>, 3, <<"t">>, <<>>, 1, 2),
      Book(2, "Bar", <<>>, 5, <<"t", "u">>, << Entry(9, "x", <<>>, 1) >>, 2, 2),
      Book(3, "foo", <<>>, 0, <<>>, <<>>, 1, 1) }

InitView ==
    /\ store \in SUBSET ViewBooks
    /\ books = getAllBooks(store)
    /\ legacy = NoLegacy
    /\ isLoading = FALSE
    /\ view = "list"
    /\ editingBookId = 0
    /\ confirmConfig = NoConfirm
    /\ importConflicts = <<>>
    /\ pendingImport = NoPending
    /\ decisions = NoDecisions
    /\ currentIndex = 0
    /\ calls = <<>>
    /\ now = MaxClock
    /\ nextId = FirstId
    /\ lastAlert = NoAlert
    /\ imp = NoImport
    /\ last = Idle
    /\ searchQuery = ""
    /\ activeTags = {}
    /\ sortField = "updatedAt"
    /\ exported = NoFile
    /\ mig = NoMig
    /\ selectionMode = FALSE
    /\ selectedIds = <<>>

NextView ==
    \/ \E q \in Queries : setSearchQuery(q)
    \/ \E tags \in SUBSET {"t", "u"} : applyTags(tags)
    \/ \E tag \in {"t", "u"} : removeTag(tag)
    \/ \E field \in {"updatedAt", "createdAt", "rating"} : setSortField(field)
    \/ render

SpecView == InitView /\ [][NextView]_vars

IsSortedDesc(arr, field) ==
    \A i, j \in DOMAIN arr : i < j => sortKey(arr[i], field) >= sortKey(arr[j], field)

\* C14: with a blank query and no active tag the view holds every book of
\* the collection, in descending order of the sort key; for any query, tags
\* and sort key the view holds only books of the collection.
C14_ViewShowsAll ==
    /\ Range(filteredBooks) \subseteq Range(books)
    /\ (trim(searchQuery) = "" /\ activeTags = {}) =>
          /\ Range(filteredBooks) = Range(books)
          /\ Len(filteredBooks) = Len(books)
          /\ IsSortedDesc(filteredBooks, sortField)

\* C15: with active tags the view holds exactly the books that have every
\* active tag and match the query.
C15_TagsAnd ==
    activeTags # {} =>
       Range(filteredBooks) =
          {b \in Range(books) :
              /\ activeTags \subseteq Range(b.tags)
              /\ trim(searchQuery) # "" => matchesQuery(b, lower(searchQuery))}

\* C16: computing the view leaves the in-memory collection as it was, in
\* content and in order.
C16_ViewKeepsBooks ==
    [][ last'.op = "render" => books' = books ]_vars

\* The view was computed with a blank query and no active tag over a
\* collection that is not in the order of the sort key.
C16_Witness ==
    /\ last.op = "render"
    /\ trim(searchQuery) = ""
    /\ activeTags = {}
    /\ Len(books) >= 2
    /\ ~IsSortedDesc(books, sortField)

----------------------------------------------------------------------------
(* Error handling: import of a bad file *)

\* A file that is not JSON, or JSON whose top-level value is not an array.
BadFile(file) == ~file.parses \/ ~file.isArray

\* C17: importing a file that is malformed JSON or not an array aborts: the
\* user is told that the import failed, no store call is issued and store
\* and collection are unchanged.
C17_BadFileAborts ==
    [][ \A file \in ImportFiles :
           (BadFile(file) /\ handleImportClick(file)) =>
              /\ lastAlert'.msg = "importFail"
              /\ UNCHANGED <<store, books, calls>>
      ]_vars

----------------------------------------------------------------------------
(* Startup with legacy data, and a store write that fails *)

\* initData: `await db.saveAllBooks(migratedBooks)` rejects (the multi-put
\* is one transaction: nothing is written); the inner catch logs the error
\* and initData goes on to db.getAllBooks().
migrateFailed(i) ==
    /\ i \in DOMAIN calls
    /\ calls[i].op = "saveAllBooks"
    /\ calls[i].cont = "migrate"
    /\ calls' = Append(Remove(calls, i), Call("getAllBooks", <<>>, 0, "init", ""))
    /\ last' = Did("migrateFailed", 0, FALSE)
    /\ UNCHANGED <<dataVars, uiVars, dialogVars, envVars, lastAlert, imp,
                   viewVars, extVars, selVars>>

\* Legacy notes with identifiers of their own, all different.
LegacyLists ==
    {s \in SeqsUpTo(MigrateRecords, MaxBatch) :
        /\ \A i \in DOMAIN s : s[i].id # 0
        /\ \A i, j \in DOMAIN s : i # j => s[i].id # s[j].id}

\* What may be under 'novellog-notes' at launch: notes, a JSON value that is
\* not an array, or text that is not JSON.
StartupLegacy ==
    { [present |-> TRUE, parses |-> TRUE, isArray |-> TRUE, items |-> s] :
         s \in LegacyLists }
    \cup { [present |-> TRUE, parses |-> TRUE,  isArray |-> FALSE, items |-> <<>>],
           [present |-> TRUE, parses |-> FALSE, isArray |-> FALSE, items |-> <<>>] }

InitStartup ==
    /\ store \in InitStores
    /\ legacy \in {NoLegacy} \cup StartupLegacy
    /\ books = <<>>
    /\ isLoading = TRUE
    /\ view = "list"
    /\ editingBookId = 0
    /\ confirmConfig = NoConfirm
    /\ importConflicts = <<>>
    /\ pendingImport = NoPending
    /\ decisions = NoDecisions
    /\ currentIndex = 0
    /\ calls = <<>>
    /\ now = 1
    /\ nextId = FirstId
    /\ lastAlert = NoAlert
    /\ imp = NoImport
    /\ last = Idle
    /\ searchQuery = ""
    /\ activeTags = {}
    /\ sortField = "updatedAt"
    /\ exported = NoFile
    /\ mig = NoMig
    /\ selectionMode = FALSE
    /\ selectedIds = <<>>

NextStartup ==
    \/ initData
    \/ \E i \in 1..MaxCalls : migrateDone(i)
    \/ \E i \in 1..MaxCalls : migrateFailed(i)
    \/ \E i \in 1..MaxCalls : initLoadDone(i)
    \/ Tick

SpecStartup == InitStartup /\ [][NextStartup]_vars

\* C18: the legacy key is removed only in the step in which the write of
\* the migrated books succeeds, after which every legacy note is in the
\* store under its identifier; when the text does not parse or the write
\* fails the legacy data stays, the failure is caught, and the collection is
\* still loaded from the store.
C18_LegacyKeptUntilWritten ==
    [][ /\ legacy' # legacy =>
              /\ legacy' = NoLegacy
              /\ \E i \in DOMAIN calls :
                    /\ calls[i].op = "saveAllBooks"
                    /\ calls[i].cont = "migrate"
                    /\ Len(calls[i].books) = Len(legacy.items)
                    /\ \A k \in DOMAIN legacy.items :
                          /\ calls[i].books[k] \in store'
                          /\ calls[i].books[k].id = legacy.items[k].id
                          /\ calls[i].books[k].title = legacy.items[k].title
        /\ (isLoading /\ calls = <<>> /\ calls' # <<>>
               /\ legacy.present /\ ~legacy.parses) =>
              /\ legacy' = legacy
              /\ calls' = << Call("getAllBooks", <<>>, 0, "init", "") >>
        /\ last'.op = "migrateFailed" =>
              /\ legacy' = legacy
              /\ store' = store
              /\ calls' = << Call("getAllBooks", <<>>, 0, "init", "") >>
        /\ (isLoading /\ ~isLoading') => books' = getAllBooks(store)
      ]_vars

\* The write of two migrated notes failed: the application has loaded the
\* store's collection and the legacy notes are still there.
C18_Witness ==
    /\ ~isLoading
    /\ calls = <<>>
    /\ legacy.present
    /\ legacy.parses
    /\ Len(legacy.items) = 2
    /\ store # {}
    /\ books = getAllBooks(store)

----------------------------------------------------------------------------
(* A save whose store write fails *)

\* handleSaveBook: `await db.saveBook(bookToSave)` rejects.  The handler has
\* no try/catch and NoteEditor does not await onSave, so the rejection ends
\* the handler and reaches the window as an unhandled rejection.
saveBookFailed(i) ==
    /\ i \in DOMAIN calls
    /\ calls[i].op = "saveBook"
    /\ calls' = Remove(calls, i)
    /\ last' = Did("unhandledrejection", calls[i].id, FALSE)
    /\ UNCHANGED <<dataVars, uiVars, dialogVars, envVars, lastAlert, imp,
                   viewVars, extVars, selVars>>

NextFaulty ==
    \/ NextCrud
    \/ \E i \in 1..MaxCalls : saveBookFailed(i)

SpecFaulty == InitLoaded /\ [][NextFaulty]_vars

\* C20: when the store write of a save fails, the failure is handled in the
\* handler and the user is shown a failure notice; no error leaves the
\* handler unhandled.
C20_SaveFailureNoticed ==
    [][ \A i \in DOMAIN calls :
           (Completes(i, "saveBook") /\ calls[i].books[1] \notin store') =>
              /\ lastAlert'.msg # "none"
              /\ last'.op # "unhandledrejection"
      ]_vars

----------------------------------------------------------------------------
(* Export, and import of the exported file into an empty store *)

\* Variant: the file holds the displayed view.
handleExport_View ==
    /\ MenuReachable
    /\ exported' = [written |-> TRUE, items |-> asData(filteredBooks).items,
                    books |-> books]
    /\ last' = Idle
    /\ imp' = NoImport
    /\ lastAlert' = NoAlert
    /\ UNCHANGED <<dataVars, uiVars, dialogVars, calls, envVars, viewVars, mig, selVars>>

\* handleExport: the file's text is JSON.stringify(books).  What JSON.parse
\* gives back for it is an array whose records have a Book's properties and
\* no others; `books` records the collection the file was written from.
handleExport ==
    /\ MenuReachable
    /\ exported' = [written |-> TRUE, items |-> asData(books).items,
                    books |-> books]
    /\ last' = Idle
    /\ imp' = NoImport
    /\ lastAlert' = NoAlert
    /\ UNCHANGED <<dataVars, uiVars, dialogVars, calls, envVars, viewVars, mig, selVars>>

\* The file is taken to an installation whose store is empty.
clearAppData ==
    /\ MenuReachable
    /\ exported.written
    /\ store # {}
    /\ store' = {}
    /\ books' = <<>>
    /\ last' = Idle
    /\ imp' = NoImport
    /\ lastAlert' = NoAlert
    /\ UNCHANGED <<legacy, isLoading, uiVars, dialogVars, calls, envVars,
                   viewVars, extVars, selVars>>

\* handleImportClick with the exported file picked.
importExported ==
    /\ exported.written
    /\ store = {}
    /\ imp.phase = "idle"
    /\ handleImportClick([parses |-> TRUE, isArray |-> TRUE,
                          items |-> exported.items])

\* A legacy note without a title (and without content).
UntitledNote ==
    LegacyNote(3, "", "", FALSE, <<>>, 0, <<>>, "", <<>>, 1, 1, FALSE, <<>>)

RoundTripLegacy ==
    { [present |-> TRUE, parses |-> TRUE, isArray |-> TRUE, items |-> s] :
         s \in {l \in SeqsUpTo(MigrateRecords \cup {UntitledNote}, MaxBatch) :
                   /\ \A i \in DOMAIN l : l[i].id # 0
                   /\ \A i, j \in DOMAIN l : i # j => l[i].id # l[j].id} }

InitRoundTrip ==
    /\ \/ store \in InitStores /\ legacy = NoLegacy
       \/ store = {} /\ legacy \in RoundTripLegacy
    /\ books = <<>>
    /\ isLoading = TRUE
    /\ view = "list"
    /\ editingBookId = 0
    /\ confirmConfig = NoConfirm
    /\ importConflicts = <<>>
    /\ pendingImport = NoPending
    /\ decisions = NoDecisions
    /\ currentIndex = 0
    /\ calls = <<>>
    /\ now = 1
    /\ nextId = FirstId
    /\ lastAlert = NoAlert
    /\ imp = NoImport
    /\ last = Idle
    /\ searchQuery = ""
    /\ activeTags = {}
    /\ sortField = "updatedAt"
    /\ exported = NoFile
    /\ mig = NoMig
    /\ selectionMode = FALSE
    /\ selectedIds = <<>>

NextRoundTrip ==
    \/ initData
    \/ \E i \in 1..MaxCalls : migrateDone(i)
    \/ \E i \in 1..MaxCalls : initLoadDone(i)
    \/ Quiescent /\ ~exported.written /\ handleExport
    \/ Quiescent /\ clearAppData
    \/ Quiescent /\ importExported
    \/ \E i \in 1..MaxCalls : saveAllBooksDone(i)
    \/ \E i \in 1..MaxCalls : getAllBooksDone(i)
    \/ Tick

SpecRoundTrip == InitRoundTrip /\ [][NextRoundTrip]_vars

CountOf(s, x) == Cardinality({i \in DOMAIN s : s[i] = x})

\* The same books, each as many times, identifiers aside.
SameUpToIds(a, b) ==
    /\ Len(a) = Len(b)
    /\ \A x \in Range(NoId(a)) \cup Range(NoId(b)) :
          CountOf(NoId(a), x) = CountOf(NoId(b), x)

\* The exported file has been imported into an empty store and the import's
\* store calls have completed.
RoundTripDone ==
    /\ exported.written
    /\ ImportSettled
    /\ imp.storeAt = {}
    /\ imp.booksAt = <<>>

\* C19 as stated: after exporting a collection and importing the file into
\* an empty store the collection has as many books as the original, equal
\* to them in every field but the identifier.
C19_RoundTrip ==
    RoundTripDone =>
       /\ SameUpToIds(books, exported.books)
       /\ store = Range(books)

\* C19: the round trip gives back the original collection, identifiers
\* aside, when every book of the original has a non-empty title; a book
\* without a title is dropped by the import.
C19_RoundTripTitled ==
    RoundTripDone =>
       /\ SameUpToIds(books, SelectSeq(exported.books, LAMBDA b : b.title # ""))
       /\ store = Range(books)
       /\ \A k \in DOMAIN books : books[k].id \notin Ids(Range(exported.books))

\* A collection of two titled books, one with an entry, has made the round
\* trip.
C19_Witness ==
    /\ RoundTripDone
    /\ Len(exported.books) = 2
    /\ Len(books) = 2
    /\ \E k \in DOMAIN books : books[k].entries # <<>>

----------------------------------------------------------------------------
(* Import with a store whose batch write can be rejected *)

\* saveImportedBooks: await db.saveAllBooks(newBooks) rejects.  Nothing is
\* written, the reload is not reached, and nothing catches the rejection.
saveAllBooksFailed(i) ==
    /\ i \in DOMAIN calls
    /\ calls[i].op = "saveAllBooks"
    /\ calls[i].cont = "import"
    /\ calls' = Remove(calls, i)
    /\ last' = Did("unhandledrejection", 0, FALSE)
    /\ UNCHANGED <<dataVars, uiVars, dialogVars, envVars, lastAlert, imp,
                   viewVars, extVars, selVars>>

NextImportFaulty ==
    \/ NextImport
    \/ \E i \in 1..MaxCalls : saveAllBooksFailed(i)

SpecImportFaulty == InitLoaded /\ [][NextImportFaulty]_vars

\* The import found no conflict.
NoConflictImport == imp.phase = "writing" /\ imp.conflicts = <<>>

\* C21: an import without conflicts is written and reloaded with no user
\* decision, the reported count is the number of incoming records with a
\* non-empty title, and once the count has been reported and no store call
\* is pending the batch is in the store and in the collection.
C21_ReportedBatchPersisted ==
    NoConflictImport =>
        /\ imp.choices = <<>>
        /\ lastAlert = [msg |-> "importSuccess", n |-> Titled(imp.batch)]
        /\ Len(imp.pending) = Titled(imp.batch)
        /\ calls = <<>> =>
              \A k \in DOMAIN imp.pending :
                  /\ imp.pending[k] \in store
                  /\ imp.pending[k] \in Range(books)

\* The success count of a batch of one record is on screen, the write has
\* been rejected and the store is as it was.
C21_Witness ==
    /\ NoConflictImport
    /\ calls = <<>>
    /\ lastAlert = [msg |-> "importSuccess", n |-> 1]
    /\ last = Did("unhandledrejection", 0, FALSE)
    /\ store = imp.storeAt

----------------------------------------------------------------------------
(* The conflict dialog, step by step (SpecImport) *)

\* The key under which handleDecision files the decision on the conflict
\* now shown.
CurrentKey == importConflicts[currentIndex + 1].incoming.id

\* C22: the conflicts are shown one at a time in batch order; the index
\* starts at 0 and advances by one per decision; the resolve callback runs
\* once, on the decision for the last conflict, with the decisions gathered;
\* no store call is issued or performed before it.
C22_OneAtATime ==
    [][ /\ (imp.phase # "dialog" /\ imp'.phase = "dialog") =>
              /\ currentIndex' = 0
              /\ decisions' = NoDecisions
              /\ [k \in DOMAIN importConflicts' |-> importConflicts'[k].incoming]
                    = SubseqAt(imp'.batch, ConflictingAt(imp'.batch, books))
        /\ imp.phase = "dialog" =>
              /\ calls = <<>>
              /\ store' = store
              /\ currentIndex < Len(importConflicts)
              /\ Len(imp.choices) = currentIndex
              /\ \/ /\ last'.op = "cancelImport"
                    /\ imp'.phase = "cancelled"
                    /\ calls' = <<>>
                 \/ /\ last'.op \in {"skip", "overwrite"}
                    /\ imp'.choices = Append(imp.choices, last'.op)
                    /\ IF currentIndex < Len(importConflicts) - 1
                       THEN /\ imp'.phase = "dialog"
                            /\ currentIndex' = currentIndex + 1
                            /\ decisions' = [decisions EXCEPT ![CurrentKey] = last'.op]
                            /\ importConflicts' = importConflicts
                            /\ calls' = <<>>
                       ELSE /\ imp'.phase = "writing"
                            /\ imp'.resolutions
                                  = [decisions EXCEPT ![CurrentKey] = last'.op]
                            /\ importConflicts' = <<>>
                            /\ Cardinality({k \in DOMAIN calls' :
                                              calls'[k].op = "saveAllBooks"}) = 1
        /\ (imp.phase = "writing" \/ imp.phase = "cancelled") =>
              /\ imp'.phase = imp.phase
              /\ imp'.resolutions = imp.resolutions
              /\ importConflicts' = <<>>
      ]_vars

\* Two conflicts have been decided in turn and the callback has run.
C22_Witness ==
    /\ imp.phase = "writing"
    /\ Len(imp.conflicts) = 2
    /\ imp.choices = <<"skip", "overwrite">>
    /\ last = Did("overwrite", 1, TRUE)

----------------------------------------------------------------------------
(* resolveImportConflicts applied to any decision map *)

\* Decision maps, with and without an entry for each key.
Resolutions == [ImportKeys -> {"none", "skip", "overwrite"}]

\* onResolve called with a decision map of any shape.
onResolve(resolutions) ==
    /\ importConflicts # <<>>
    /\ Len(calls) + Len(OverwriteIdx(importConflicts, resolutions)) + 1 <= MaxCalls
    /\ resolveImportConflicts(resolutions)
    /\ imp' = [imp EXCEPT
                 !.phase = "writing",
                 !.resolutions = resolutions,
                 !.newIds = NewIds(importConflicts, resolutions, nextId)]
    /\ decisions' = NoDecisions
    /\ currentIndex' = 0
    /\ last' = Did("resolve", 0, TRUE)
    /\ UNCHANGED <<dataVars, uiVars, now, lastAlert>>
    /\ UNCHANGED <<viewVars, extVars, selVars>>

NextResolve ==
    \/ \E file \in ImportFiles :
          Quiescent /\ imp.phase = "idle" /\ handleImportClick(file)
    \/ \E resolutions \in Resolutions : onResolve(resolutions)
    \/ \E i \in 1..MaxCalls : saveAllBooksDone(i)
    \/ \E i \in 1..MaxCalls : getAllBooksDone(i)
    \/ \E i \in 1..MaxCalls : overwriteDeleteDone(i)

SpecResolve == InitLoaded /\ [][NextResolve]_vars

\* The conflicts whose key has no entry in the decision map.
Missing == {i \in DOMAIN imp.conflicts : Decision(i) = "none"}

DeleteCalls == {k \in DOMAIN calls : calls[k].op = "deleteBook"}

\* C23: a conflict whose key has no entry in the decision map is skipped:
\* its incoming record is not in the batch written and no delete is issued
\* for it, so its existing record stays unless another conflict on the same
\* book was decided 'overwrite'.
C23_MissingIsSkip ==
    /\ (imp.phase = "writing" /\ last.op = "resolve") =>
          /\ calls[Len(calls)].op = "saveAllBooks"
          /\ calls[Len(calls)].books = ExpectedBatch
          /\ Cardinality(DeleteCalls) = Cardinality(Overwritten)
          /\ {calls[k].id : k \in DeleteCalls}
                = {imp.conflicts[i].existing.id : i \in Overwritten}
    /\ ImportSettled =>
          /\ \A i \in Missing :
                /\ imp.newIds[i] = 0
                /\ (\A j \in Overwritten :
                       imp.conflicts[j].existing.id # imp.conflicts[i].existing.id)
                   => /\ imp.conflicts[i].existing \in store
                      /\ imp.conflicts[i].existing \in Range(books)
          /\ Cardinality(store \ imp.storeAt)
                = Len(imp.pending) + Cardinality(Overwritten)

\* One conflict without an entry beside one decided 'overwrite', settled.
C23_Witness ==
    /\ ImportSettled
    /\ Missing # {}
    /\ Overwritten # {}
    /\ \E i \in Missing : imp.conflicts[i].existing \in store

----------------------------------------------------------------------------
(* Decisions and the conflicts they were made for (SpecImport) *)

\* C25: after the last decision, conflict i is overwritten (its incoming
\* record is in the batch written under a new identifier and a delete of its
\* existing record is issued) if and only if 'overwrite' was chosen when
\* conflict i was shown.
C25_DecisionPerConflict ==
    (imp.phase = "writing" /\ imp.conflicts # <<>>) =>
        \A i \in DOMAIN imp.conflicts :
            (imp.newIds[i] # 0) <=> (imp.choices[i] = "overwrite")

\* 'overwrite' was chosen for the first of two conflicts whose incoming
\* records share an identifier and 'skip' for the second; nothing has been
\* overwritten.
C25_Witness ==
    /\ ImportSettled
    /\ Len(imp.conflicts) = 2
    /\ imp.conflicts[1].incoming.id = imp.conflicts[2].incoming.id
    /\ imp.choices = <<"overwrite", "skip">>
    /\ Overwritten = {}
    /\ store = imp.storeAt

----------------------------------------------------------------------------
(* Titles across an import (SpecImport) *)

\* No two books of bs have the same title, compared in lower case.
TitlesDistinct(bs) ==
    \A i, j \in DOMAIN bs :
        i # j => toLowerCase(bs[i].title) # toLowerCase(bs[j].title)

\* C26: when the titles of the collection are pairwise distinct, compared
\* in lower case, before an import, they are pairwise distinct when the
\* import has completed.
C26_TitlesStayDistinct ==
    (ImportSettled /\ TitlesDistinct(imp.booksAt)) => TitlesDistinct(books)

\* A batch of two records with one title that is new to the collection has
\* been imported without a conflict, and both records are in the collection.
C26_Witness ==
    /\ ImportSettled
    /\ TitlesDistinct(imp.booksAt)
    /\ imp.conflicts = <<>>
    /\ Len(imp.pending) = 2
    /\ ~TitlesDistinct(books)
    /\ Range(books) = store

----------------------------------------------------------------------------
(* Cancelling the conflict dialog (SpecImport) *)

\* C28: after the conflict dialog has been cancelled, at whatever conflict,
\* no store call has been issued, the store and the collection are as they
\* were before the import, the pending records are dropped, the decisions
\* made for earlier conflicts are gone with the dialog, and no import is
\* reported.
C28_CancelDiscards ==
    imp.phase = "cancelled" =>
        /\ calls = <<>>
        /\ store = imp.storeAt
        /\ books = imp.booksAt
        /\ pendingImport = NoPending
        /\ importConflicts = <<>>
        /\ decisions = NoDecisions
        /\ currentIndex = 0
        /\ lastAlert.msg # "importSuccess"

\* The dialog was cancelled at the second conflict, after 'overwrite' had
\* been chosen for the first.
C28_Witness ==
    /\ imp.phase = "cancelled"
    /\ last = Did("cancelImport", 1, TRUE)
    /\ imp.choices = <<"overwrite">>
    /\ Len(imp.conflicts) = 2

----------------------------------------------------------------------------
(* App.tsx: selection mode and batch delete *)

\* The cards are taken to be on the page for every book of the collection.

\* The menu's 'select multiple' entry.
enterSelection ==
    /\ MenuReachable
    /\ selectionMode' = TRUE
    /\ last' = Idle
    /\ imp' = NoImport
    /\ lastAlert' = NoAlert
    /\ UNCHANGED <<dataVars, uiVars, dialogVars, calls, envVars, selectedIds>>
    /\ UNCHANGED <<viewVars, extVars>>

\* newSet.has(id) ? newSet.delete(id) : newSet.add(id)
toggled(ids, id) ==
    IF id \in Range(ids) THEN SelectSeq(ids, LAMBDA x : x # id) ELSE Append(ids, id)

\* NoteCard onClick in selection mode: App's onSelect, or its onClick, which
\* does the same while selectionMode is set.
toggleSelect(id) ==
    /\ PageReachable
    /\ view = "list"
    /\ selectionMode
    /\ id \in Ids(Range(books))
    /\ selectedIds' = toggled(selectedIds, id)
    /\ last' = Idle
    /\ imp' = NoImport
    /\ lastAlert' = NoAlert
    /\ UNCHANGED <<dataVars, uiVars, dialogVars, calls, envVars, selectionMode>>
    /\ UNCHANGED <<viewVars, extVars>>

\* Variant: the cancel button leaves the mode and keeps the selection.
cancelSelection_KeepsIds ==
    /\ PageReachable
    /\ view = "list"
    /\ selectionMode
    /\ selectionMode' = FALSE
    /\ last' = Idle
    /\ imp' = NoImport
    /\ lastAlert' = NoAlert
    /\ UNCHANGED <<dataVars, uiVars, dialogVars, calls, envVars, selectedIds>>
    /\ UNCHANGED <<viewVars, extVars>>

\* The cancel button of the selection header.
cancelSelection ==
    /\ PageReachable
    /\ view = "list"
    /\ selectionMode
    /\ selectionMode' = FALSE
    /\ selectedIds' = <<>>
    /\ last' = Idle
    /\ imp' = NoImport
    /\ lastAlert' = NoAlert
    /\ UNCHANGED <<dataVars, uiVars, dialogVars, calls, envVars>>
    /\ UNCHANGED <<viewVars, extVars>>

\* The hardware back button.  In the editor the listener does nothing; in
\* selection mode it cancels the selection; its other branches close menus
\* or show the exit toast, which are not part of the state kept here.  The
\* listener is registered by App and runs whatever dialog is open.
backButton ==
    /\ ~isLoading
    /\ IF view # "editor" /\ selectionMode
       THEN /\ selectionMode' = FALSE
            /\ selectedIds' = <<>>
       ELSE UNCHANGED selVars
    /\ last' = Did("backButton", 0, TRUE)
    /\ UNCHANGED <<dataVars, uiVars, dialogVars, calls, envVars, lastAlert, imp>>
    /\ UNCHANGED <<viewVars, extVars>>

\* handleBatchDelete: the delete button of the selection header, disabled
\* while nothing is selected.  onConfirm closes over this render's
\* selectedIds.
handleBatchDelete ==
    /\ PageReachable
    /\ view = "list"
    /\ selectionMode
    /\ selectedIds # <<>>
    /\ confirmConfig' = [isOpen |-> TRUE, kind |-> "batchDelete", id |-> 0,
                         view |-> view, ids |-> selectedIds]
    /\ last' = Idle
    /\ imp' = NoImport
    /\ lastAlert' = NoAlert
    /\ UNCHANGED <<dataVars, view, editingBookId, dialogVars, calls, envVars>>
    /\ UNCHANGED <<viewVars, extVars, selVars>>

\* `await db.deleteBook(id)` inside the loop of onConfirm: the identifier
\* being deleted, those still to come and the selectedIds closed over.
BatchCall(id, rest, ids) ==
    [op |-> "deleteBook", books |-> <<>>, id |-> id, cont |-> "batch", view |-> "",
     rest |-> rest, ids |-> ids]

\* Variant: the deletes are all issued at once (the last one carries the
\* continuation).
batchConfirm_AllAtOnce ==
    /\ confirmConfig.isOpen
    /\ confirmConfig.kind = "batchDelete"
    /\ Len(calls) + Len(confirmConfig.ids) <= MaxCalls
    /\ calls' = calls \o [k \in DOMAIN confirmConfig.ids |->
                            BatchCall(confirmConfig.ids[k],
                                      SubSeq(confirmConfig.ids, k + 1, k),
                                      confirmConfig.ids)]
    /\ last' = Idle
    /\ UNCHANGED <<dataVars, uiVars, dialogVars, envVars, lastAlert, imp>>
    /\ UNCHANGED <<viewVars, extVars, selVars>>

\* ConfirmDialog onConfirm of a batch delete, up to the first
\* `await db.deleteBook(id)`.
batchConfirm ==
    /\ confirmConfig.isOpen
    /\ confirmConfig.kind = "batchDelete"
    /\ Len(calls) < MaxCalls
    /\ calls' = Append(calls, BatchCall(Head(confirmConfig.ids),
                                        Tail(confirmConfig.ids), confirmConfig.ids))
    /\ last' = Idle
    /\ UNCHANGED <<dataVars, uiVars, dialogVars, envVars, lastAlert, imp>>
    /\ UNCHANGED <<viewVars, extVars, selVars>>

\* A delete of the loop has resolved: the next one is issued, or, after the
\* last, the collection is filtered, selection mode is left and the dialog
\* closed.
batchDeleteDone(i) ==
    /\ i \in DOMAIN calls
    /\ calls[i].op = "deleteBook"
    /\ calls[i].cont = "batch"
    /\ store' = deleteBook(store, calls[i].id)
    /\ IF calls[i].rest # <<>>
       THEN /\ calls' = Append(Remove(calls, i),
                               BatchCall(Head(calls[i].rest), Tail(calls[i].rest),
                                         calls[i].ids))
            /\ UNCHANGED <<books, confirmConfig, selVars>>
       ELSE /\ calls' = Remove(calls, i)
            /\ books' = SelectSeq(books, LAMBDA b : b.id \notin Range(calls[i].ids))
            /\ selectionMode' = FALSE
            /\ selectedIds' = <<>>
            /\ confirmConfig' = NoConfirm
    /\ last' = Did("batchDeleteDone", calls[i].id, TRUE)
    /\ UNCHANGED <<legacy, isLoading, view, editingBookId, dialogVars, envVars,
                   lastAlert, imp>>
    /\ UNCHANGED <<viewVars, extVars>>

\* A delete of the loop is rejected: onConfirm ends there, nothing catches
\* the rejection.
batchDeleteFailed(i) ==
    /\ i \in DOMAIN calls
    /\ calls[i].op = "deleteBook"
    /\ calls[i].cont = "batch"
    /\ calls' = Remove(calls, i)
    /\ last' = Did("unhandledrejection", calls[i].id, FALSE)
    /\ UNCHANGED <<dataVars, uiVars, dialogVars, envVars, lastAlert, imp>>
    /\ UNCHANGED <<viewVars, extVars, selVars>>

NextBatch ==
    \/ enterSelection
    \/ \E id \in 1..MaxId : toggleSelect(id)
    \/ cancelSelection
    \/ backButton
    \/ handleBatchDelete
    \/ Quiescent /\ batchConfirm
    \/ cancelConfirm
    \/ \E i \in 1..MaxCalls : batchDeleteDone(i)
    \/ \E i \in 1..MaxCalls : batchDeleteFailed(i)

SpecBatch == InitLoaded /\ [][NextBatch]_vars

----------------------------------------------------------------------------
(* Properties of batch delete (SpecBatch) *)

BatchCalls == {k \in DOMAIN calls : calls[k].cont = "batch"}

\* The identifiers of a batch whose delete has resolved before the call c
\* was issued.
DoneBefore(c) == Range(c.ids) \ ({c.id} \cup Range(c.rest))

\* C24: the deletes of a batch are issued one at a time, each after the one
\* before it has resolved; when the last has resolved none of the selected
\* identifiers is in the store or in the collection, selection mode is off
\* and the selection empty; when a delete is rejected the store keeps the
\* deletes made before it, and no further store call is issued.
C24_BatchDelete ==
    [][ /\ Cardinality(BatchCalls) <= 1
        /\ \A k \in BatchCalls :
              /\ calls[k].ids = SubSeq(calls[k].ids, 1,
                                       Len(calls[k].ids) - Len(calls[k].rest) - 1)
                                \o <<calls[k].id>> \o calls[k].rest
              /\ DoneBefore(calls[k]) \cap Ids(store) = {}
        /\ last'.op = "batchDeleteDone" =>
              \E k \in BatchCalls :
                 /\ last'.id = calls[k].id
                 /\ calls[k].id \notin Ids(store')
                 /\ IF calls[k].rest # <<>>
                    THEN /\ Len(calls') = Len(calls)
                         /\ calls'[Len(calls')].cont = "batch"
                         /\ calls'[Len(calls')].id = Head(calls[k].rest)
                         /\ calls'[Len(calls')].rest = Tail(calls[k].rest)
                         /\ UNCHANGED <<books, selVars>>
                    ELSE /\ calls' = <<>>
                         /\ Range(calls[k].ids) \cap Ids(store') = {}
                         /\ Range(calls[k].ids) \cap Ids(Range(books')) = {}
                         /\ selectionMode' = FALSE
                         /\ selectedIds' = <<>>
        /\ last'.op = "unhandledrejection" =>
              \E k \in BatchCalls :
                 /\ last'.id = calls[k].id
                 /\ store' = store
                 /\ DoneBefore(calls[k]) \cap Ids(store') = {}
                 /\ calls' = <<>>
                 /\ UNCHANGED <<books, selVars>>
      ]_vars

\* The second delete of a batch of two was rejected: the first book is gone
\* from the store, the second is still there.
C24_Witness ==
    /\ last.op = "unhandledrejection"
    /\ Len(selectedIds) = 2
    /\ selectedIds[1] \notin Ids(store)
    /\ selectedIds[2] \in Ids(store)
    /\ last.id = selectedIds[2]
    /\ calls = <<>>

\* C30: outside selection mode nothing is selected: an identifier is
\* selected only by a step taken in selection mode that stays in it, and
\* every step that leaves selection mode empties the selection.
C30_SelectionOnlyInMode ==
    [][ /\ ~selectionMode => selectedIds = <<>>
        /\ ~selectionMode' => selectedIds' = <<>>
        /\ Range(selectedIds') \ Range(selectedIds) # {} =>
              selectionMode /\ selectionMode'
      ]_vars

\* Selection mode was left through the back button while the confirm dialog
\* of a batch delete was open on a selection.
C30_Witness ==
    /\ ~selectionMode
    /\ selectedIds = <<>>
    /\ last.op = "backButton"
    /\ confirmConfig.isOpen
    /\ confirmConfig.kind = "batchDelete"
    /\ confirmConfig.ids # <<>>

----------------------------------------------------------------------------
(* The record handlers without waiting for one another *)

\* The user does not wait for a store call to complete before starting the
\* next operation: the editor stays open while a save is awaited, and the
\* confirm dialog stays open, with its cancel button, while a delete is
\* awaited.  The store performs the calls in the order they were issued.
NextConcurrent ==
    \/ \E id \in 1..MaxId : openBook(id)
    \/ closeEditor
    \/ \E bookData \in Drafts :
          /\ Len(calls) < MaxCalls
          /\ editingBookId # 0
          /\ handleSaveBook(bookData, editingBookId)
    \/ saveBookDone(1)
    \/ \E id \in 1..MaxId : handleDeleteBook(id)
    \/ Len(calls) < MaxCalls /\ confirmDelete
    \/ cancelConfirm
    \/ confirmDeleteDone(1)
    \/ enterSelection
    \/ \E id \in 1..MaxId : toggleSelect(id)
    \/ cancelSelection
    \/ handleBatchDelete
    \/ Len(calls) < MaxCalls /\ batchConfirm
    \/ batchDeleteDone(1)

SpecConcurrent == InitLoaded /\ [][NextConcurrent]_vars

\* C27: when no store call is pending, the collection holds exactly the
\* store's books, each once and with the store's field values.
C27_CollectionMatchesStore ==
    calls = <<>> =>
        /\ Range(books) = store
        /\ Len(books) = Cardinality(store)

\* No call is pending and the store holds a book, written by a save that
\* completed after the delete of that book, which the collection lacks.
C27_Witness ==
    /\ calls = <<>>
    /\ \E b \in store : b.id \notin Ids(Range(books)) /\ b.updatedAt = now /\ b.title = "Bar"
    /\ Range(books) \subseteq store

----------------------------------------------------------------------------
(* Record handlers, import and batch delete, one operation after another *)

\* Import files for the identifiers: two records that share the identifier
\* of a stored book, one with the identifier of another, one without.
IdFiles ==
    { [parses |-> TRUE, isArray |-> TRUE, items |-> s] :
         s \in SeqsUpTo({ Note(1, "foo", "", 1, 1), Note(1, "Foo", "", 1, 2),
                          Note(2, "Bar", "x", 1, 1), Note(0, "Bar", "", 1, 9) },
                        MaxBatch) }

\* The user acts when no store call is pending, and selects cards in the
\* order of their identifiers (the last one selected can be deselected).
NextAll ==
    \/ \E id \in 1..MaxId : Quiescent /\ openBook(id)
    \/ Quiescent /\ addBook
    \/ Quiescent /\ closeEditor
    \/ \E bookData \in Drafts :
          Quiescent /\ handleSaveBook(bookData, editingBookId)
    \/ \E i \in 1..MaxCalls : saveBookDone(i)
    \/ \E id \in 1..MaxId : Quiescent /\ handleDeleteBook(id)
    \/ Quiescent /\ confirmDelete
    \/ Quiescent /\ cancelConfirm
    \/ \E i \in 1..MaxCalls : confirmDeleteDone(i)
    \/ \E file \in IdFiles : Quiescent /\ handleImportClick(file)
    \/ \E decision \in {"skip", "overwrite"} : handleDecision(decision)
    \/ cancelImport
    \/ \E i \in 1..MaxCalls : saveAllBooksDone(i)
    \/ \E i \in 1..MaxCalls : getAllBooksDone(i)
    \/ \E i \in 1..MaxCalls : overwriteDeleteDone(i)
    \/ Quiescent /\ enterSelection
    \/ \E id \in 1..MaxId :
          Quiescent /\ (\A x \in Range(selectedIds) : x <= id) /\ toggleSelect(id)
    \/ Quiescent /\ cancelSelection
    \/ Quiescent /\ backButton
    \/ Quiescent /\ handleBatchDelete
    \/ Quiescent /\ batchConfirm
    \/ \E i \in 1..MaxCalls : batchDeleteDone(i)

SpecAll == InitLoaded /\ [][NextAll]_vars

\* C29: the books of the collection have pairwise distinct identifiers.
C29_DistinctIds ==
    \A i, j \in DOMAIN books : i # j => books[i].id # books[j].id

\* An import has overwritten a book with a record whose identifier in the
\* file is that of another book of the collection; both are in the
\* collection.
C29_Witness ==
    /\ ImportSettled
    /\ Len(books) >= 2
    /\ \E i \in Overwritten :
          /\ imp.conflicts[i].incoming.id # imp.conflicts[i].existing.id
          /\ imp.conflicts[i].incoming.id \in Ids(Range(books))
          /\ imp.newIds[i] \in Ids(Range(books))

====
